---------------------------- MODULE Spec2Model ----------------------------
(***************************************************************************)
(* A model of the morass voxel engine: the chunk tracker (coordinate <->   *)
(* entity index), the deferred voxel delta queue, the chunk mesher system  *)
(* and the soft time limiter that paces it.                                *)
(*                                                                         *)
(* The host (specs' World with a FlaggedStorage<Chunk>) is modelled by its *)
(* documented behaviour: inserting a component into an entity that has     *)
(* none emits an InsertedFlag event, removing one emits a RemovedFlag      *)
(* event, mutable access emits a ModifiedFlag event; every registered      *)
(* reader of an event channel sees every event emitted after it was        *)
(* registered, in emission order, exactly once.  The three channels are    *)
(* separate: the relative order of an insertion and a removal is not       *)
(* recorded anywhere.                                                      *)
(*                                                                         *)
(* An entity is identified by its index; entities are never recycled       *)
(* under a new generation.  VoxelCoord is a triple <<x, y, z>>.            *)
(*                                                                         *)
(* Time is counted in integer clock ticks.  An Instant is the number of    *)
(* ticks since the current frame was opened (Instants are opaque in the    *)
(* code, only their differences are used).  The f64 time estimate is a     *)
(* fixed-point number of 1/EstScale ticks.                                 *)
(***************************************************************************)
EXTENDS Integers, Sequences, FiniteSets, TLC

(***************************************************************************)
(* Program constants                                                       *)
(***************************************************************************)
\* voxel/src/lib.rs:50
CHUNK_SIZE == 16

\* TimeLimiter::default(): with_rates(0.1, 0.99), as exact fractions
SmoothingNum == 1
SmoothingDen == 10
DecayNum == 99
DecayDen == 100

(***************************************************************************)
(* Bounds of the model                                                     *)
(***************************************************************************)
\* unread events a reader may have in one channel
MaxQueue == 1
\* defer_set calls over one behaviour
MaxDefer == 2
\* longest task unit, in ticks
MaxDur == 3
\* largest frame budget, in ticks
MaxBudget == 1
\* estimate units per clock tick
EstScale == 5
\* largest budget of the timing tests, in ticks
MaxTestBudget == 4
\* most loop iterations of one raycast that are followed
MaxIters == 12
\* most loop iterations of a raycast that voxel_raycast calls
MaxRun == 64
\* most iterations of the loop of voxel_raycast that are followed
MaxLegs == 6
\* longest wait between the clock read of have_time and that of time_task,
\* in ticks
MaxLate == 1

\* entity indices
Ids == {1, 2}
\* chunk tags the host uses: multiples of CHUNK_SIZE (the ChunkCoord contract)
ChunkCoords == {<<-16, 0, 0>>, <<0, 0, 0>>}
\* the voxel type: a closed set, Air is Voxel::default() / empty
Voxels == {"Air", "Grass", "Rock"}
\* voxel coordinates handed to defer_set
DeltaCoords == {<<-16, 0, 0>>, <<-1, 0, 0>>, <<1, 0, 0>>}
\* the chunk cells the model keeps (every other cell stays Air)
Cells == {<<0, 0, 0>>, <<1, 0, 0>>, <<15, 0, 0>>}

(***************************************************************************)
(* Finite maps (FnvHashMap, HashMapStorage) as functions on their key set  *)
(***************************************************************************)
EmptyMap == [k \in {} |-> 0]

MapPut(f, k, v) == [x \in (DOMAIN f) \cup {k} |-> IF x = k THEN v ELSE f[x]]

MapDel(f, k) == [x \in (DOMAIN f) \ {k} |-> f[x]]

(***************************************************************************)
(* Coordinates                                                             *)
(***************************************************************************)
\* Rust's % on signed integers: the remainder has the sign of the dividend
Rem(a, n) == IF a >= 0 THEN a % n ELSE -((-a) % n)

CanonAxis(a) == a - Rem(a, CHUNK_SIZE)

canonicalize_chunk(v) == <<CanonAxis(v[1]), CanonAxis(v[2]), CanonAxis(v[3])>>

VSub(a, b) == <<a[1] - b[1], a[2] - b[2], a[3] - b[3]>>

VAdd(a, b) == <<a[1] + b[1], a[2] + b[2], a[3] + b[3]>>

VScale(v, n) == <<v[1] * n, v[2] * n, v[3] * n>>

\* Chunk::index bounds check: every component is a valid array index
IndexInBounds(v) == \A i \in 1..3 : v[i] >= 0 /\ v[i] < CHUNK_SIZE

\* the chunk that really contains voxel v: floor to the chunk grid
OwnerCoord(v) ==
    <<v[1] - (v[1] % CHUNK_SIZE), v[2] - (v[2] % CHUNK_SIZE), v[3] - (v[3] % CHUNK_SIZE)>>

VARIABLES
    \* host storage: entity index -> Chunk, for the entities that have one
    chunks,
    \* per registered reader (ReaderId), the events it has not read yet
    unread,
    \* ChunkTracker
    coord_to_ent, idx_to_coord,
    \* "none", or the message of the panic that ended the program
    aborted,
    \* whether debug_assert! is compiled in
    debug,
    \* history: no two chunks in storage ever carried the same coordinate
    unique_coords,
    \* history: what the last tracker run processed
    last_run,
    \* ChunkDeltas::pending, each entry stamped with its defer_set call number
    pending,
    \* the Mutex around pending: "free", or "apply" while the apply phase holds it
    lock,
    \* what the apply phase's Drain iterator has not yielded yet
    batch,
    \* history: the number of defer_set calls, of entries drained, of entries processed
    appended, drained, applied,
    \* history: the whole batch the current or last apply phase drained
    apply_batch,
    \* TimeLimiter::time_estimate, in 1/EstScale of a clock tick
    time_estimate,
    \* Instant::now(), counted from the start of the current frame
    now,
    \* Frame::deadline, on the same clock
    deadline,
    \* where repeat_with_budget stands: "idle" (not running), "test" (about to
    \* evaluate have_time), "task" (about to run one task unit)
    pc,
    \* the local should_continue: what the last task unit returned
    should_continue,
    \* history: a task unit ran in the current frame
    ran,
    \* history: the last frame had a positive budget and ran no task unit
    locked_out,
    \* ChunkMesherSystem::time_limit
    time_limit,
    \* ChunkMesherSystem::to_do, the dirty set
    to_do,
    \* the local completed of ChunkMesherSystem::run
    completed,
    \* the last index the BitSet iterator of the run yielded
    iter,
    \* the Handle<Mesh> storage: the entities that have a mesh
    meshes,
    \* history: the ids whose removal a mesher run has processed, until a
    \* run reads a later notification for them
    cancelled,
    \* history: the ids of the current run for which meshes.insert or
    \* materials.insert returned an error
    attach_failed,
    \* history: for every entity with a Handle<Mesh>, the voxel data its mesh
    \* was computed from (the chunk's own and that of its six neighbours)
    attached,
    \* the timing tests: the constant duration of their task unit and the
    \* budget they pass to every call
    task_dur, test_budget,
    \* one call of raycast: its arguments, and the locals of the call
    \* together with what it has evaluated and returned so far
    ray_in, ray,
    \* one call of voxel_raycast: its arguments, and its locals and result
    vray_in, vray,
    \* one call of mesh_chunk: its coord argument, and its locals and result
    mesh_coord, mesh_call

worldVars == <<chunks, unread, coord_to_ent, idx_to_coord, aborted, debug,
               unique_coords, last_run>>

deltaVars == <<pending, lock, batch, appended, drained, applied, apply_batch>>

limiterVars == <<time_estimate, now, deadline, pc, should_continue, ran, locked_out>>

mesherVars == <<time_limit, to_do, completed, iter, meshes, cancelled, attach_failed,
               attached>>

timingVars == <<task_dur, test_budget>>

rayVars == <<ray_in, ray>>

vrayVars == <<vray_in, vray>>

meshCallVars == <<mesh_coord, mesh_call>>

\* the state of the parts that are driven on their own
auxVars == <<timingVars, rayVars, vrayVars, meshCallVars>>

vars == <<worldVars, deltaVars, limiterVars, mesherVars, auxVars>>


(***************************************************************************)
(* The host: FlaggedStorage<Chunk> and its event channels                  *)
(***************************************************************************)
\* the channel each reader was registered on (track_inserted / _modified / _removed)
ReaderKind(r) ==
    CASE r \in {"t_ins", "m_ins"} -> "inserted"
      [] r \in {"m_mod"} -> "modified"
      [] r \in {"t_rem", "m_rem"} -> "removed"

TrackerReaders == {"t_ins", "t_rem"}

\* EventChannel::single_write: every registered reader of the channel gets the event
Emit(q, kind, idx) ==
    [r \in DOMAIN q |-> IF ReaderKind(r) = kind THEN Append(q[r], idx) ELSE q[r]]

CanEmit(kind) ==
    \A r \in DOMAIN unread : ReaderKind(r) = kind => Len(unread[r]) < MaxQueue

\* EventChannel::read: the reader takes everything it has not read yet
ReadAll(q, r) == [q EXCEPT ![r] = <<>>]

\* Chunk::empty(coord)
EmptyChunk(coord) == [coord |-> coord, voxels |-> [x \in Cells |-> "Air"]]

NoRun == [removed |-> {}, inserted |-> {}]

Running == aborted = "none"

\* no system is in the middle of its run: a running system borrows the chunk
\* storage and the tracker, so nothing else touches them until it returns
Idle == Running /\ lock = "free" /\ pc = "idle"

\* Storage::insert on an entity without a Chunk: inner.insert emits InsertedFlag
InsertChunk(idx, coord) ==
    /\ Idle
    /\ idx \notin DOMAIN chunks
    /\ CanEmit("inserted")
    /\ chunks' = MapPut(chunks, idx, EmptyChunk(coord))
    /\ unread' = Emit(unread, "inserted", idx)
    /\ unique_coords' = (unique_coords /\ \A j \in DOMAIN chunks : chunks[j].coord # coord)
    /\ last_run' = NoRun
    /\ UNCHANGED <<coord_to_ent, idx_to_coord, aborted, debug>>
    /\ UNCHANGED deltaVars
    /\ UNCHANGED auxVars
    /\ UNCHANGED <<limiterVars, mesherVars>>

\* Storage::remove / delete_entity: inner.remove emits RemovedFlag
RemoveChunk(idx) ==
    /\ Idle
    /\ idx \in DOMAIN chunks
    /\ CanEmit("removed")
    /\ chunks' = MapDel(chunks, idx)
    /\ unread' = Emit(unread, "removed", idx)
    /\ last_run' = NoRun
    /\ UNCHANGED <<coord_to_ent, idx_to_coord, aborted, debug, unique_coords>>
    /\ UNCHANGED deltaVars
    /\ UNCHANGED auxVars
    /\ UNCHANGED <<limiterVars, mesherVars>>

(***************************************************************************)
(* ChunkTracker and ChunkTrackerSystem                                     *)
(***************************************************************************)
\* Option<Entity> as a set: None is {}, Some(e) is {e}
get_chunk_ent_in(c2e, coord) ==
    LET canon == canonicalize_chunk(coord)
    IN  IF canon \in DOMAIN c2e THEN {c2e[canon]} ELSE {}

get_chunk_ent(coord) == get_chunk_ent_in(coord_to_ent, coord)

\* the state a tracker run threads through its two loops
TrackerState(c2e, i2c, ab, rem, ins) ==
    [coord_to_ent |-> c2e, idx_to_coord |-> i2c, aborted |-> ab,
     removed |-> rem, inserted |-> ins]

\* mutant: the removal forgets the coordinate side of the bidirectional map
TrackerRemoveOneSided(tr, idx, dbg) ==
    IF idx \notin DOMAIN tr.idx_to_coord
    THEN [tr EXCEPT !.aborted = "removed but not present"]
    ELSE [tr EXCEPT !.idx_to_coord = MapDel(tr.idx_to_coord, idx),
                    !.removed = tr.removed \cup {idx}]

\* one iteration of the removal loop
TrackerRemove(tr, idx, dbg) ==
    IF idx \notin DOMAIN tr.idx_to_coord
    THEN [tr EXCEPT !.aborted = "removed but not present"]
    ELSE LET coord == tr.idx_to_coord[idx]
         IN  IF dbg /\ coord \notin DOMAIN tr.coord_to_ent
             THEN [tr EXCEPT !.aborted = "debug_assert"]
             ELSE [tr EXCEPT !.idx_to_coord = MapDel(tr.idx_to_coord, idx),
                             !.coord_to_ent = MapDel(tr.coord_to_ent, coord),
                             !.removed = tr.removed \cup {idx}]

\* one iteration of the insertion loop; the coordinate is read from storage now
TrackerInsert(tr, idx, store, dbg) ==
    IF idx \notin DOMAIN store
    THEN [tr EXCEPT !.aborted = "inserted but not present"]
    ELSE LET coord == store[idx].coord
         IN  IF dbg /\ (idx \in DOMAIN tr.idx_to_coord
                        \/ coord \in DOMAIN tr.coord_to_ent)
             THEN [tr EXCEPT !.aborted = "debug_assert"]
             ELSE [tr EXCEPT !.idx_to_coord = MapPut(tr.idx_to_coord, idx, coord),
                             !.coord_to_ent = MapPut(tr.coord_to_ent, coord, idx),
                             !.inserted = {p \in tr.inserted : p[1] # idx}
                                              \cup {<<idx, coord>>}]

RECURSIVE TrackerRemoveAll(_, _, _)
TrackerRemoveAll(tr, q, dbg) ==
    IF q = <<>> \/ tr.aborted # "none"
    THEN tr
    ELSE TrackerRemoveAll(TrackerRemove(tr, Head(q), dbg), Tail(q), dbg)

RECURSIVE TrackerInsertAll(_, _, _, _)
TrackerInsertAll(tr, q, store, dbg) ==
    IF q = <<>> \/ tr.aborted # "none"
    THEN tr
    ELSE TrackerInsertAll(TrackerInsert(tr, Head(q), store, dbg), Tail(q), store, dbg)

\* mutant: the run processes the insertions before the removals
TrackerRunInsertFirst ==
    LET start == TrackerState(coord_to_ent, idx_to_coord, "none", {}, {})
        afterInserted == TrackerInsertAll(start, unread["t_ins"], chunks, debug)
    IN  TrackerRemoveAll(afterInserted, unread["t_rem"], debug)

\* ChunkTrackerSystem::run: every removal first, then every insertion
TrackerRunResult ==
    LET start == TrackerState(coord_to_ent, idx_to_coord, "none", {}, {})
        afterRemoved == TrackerRemoveAll(start, unread["t_rem"], debug)
    IN  TrackerInsertAll(afterRemoved, unread["t_ins"], chunks, debug)

TrackerRun ==
    /\ Idle
    /\ TrackerReaders \subseteq DOMAIN unread
    /\ LET res == TrackerRunResult
       IN  /\ coord_to_ent' = res.coord_to_ent
           /\ idx_to_coord' = res.idx_to_coord
           /\ aborted' = res.aborted
           /\ last_run' = [removed |-> res.removed, inserted |-> res.inserted]
    /\ unread' = ReadAll(ReadAll(unread, "t_rem"), "t_ins")
    /\ UNCHANGED <<chunks, debug, unique_coords>>
    /\ UNCHANGED deltaVars
    /\ UNCHANGED auxVars
    /\ UNCHANGED <<limiterVars, mesherVars>>

(***************************************************************************)
(* SpecTracker: the host and the tracker system (tests::test_tracker)      *)
(***************************************************************************)
InitWorld ==
    /\ chunks = EmptyMap
    /\ coord_to_ent = EmptyMap
    /\ idx_to_coord = EmptyMap
    /\ aborted = "none"
    /\ debug \in BOOLEAN
    /\ unique_coords = TRUE
    /\ last_run = NoRun

\* ChunkDeltas::new
InitDeltas ==
    /\ pending = <<>>
    /\ lock = "free"
    /\ batch = <<>>
    /\ appended = 0
    /\ drained = 0
    /\ applied = 0
    /\ apply_batch = <<>>

\* TimeLimiter::new: time_estimate 0.0; no frame yet
InitLimiter ==
    /\ time_estimate = 0
    /\ now = 0
    /\ deadline = 0
    /\ pc = "idle"
    /\ should_continue = TRUE
    /\ ran = FALSE
    /\ locked_out = FALSE

\* ChunkMesherSystem::new(time_limit)
InitMesher ==
    /\ time_limit \in 0..MaxBudget
    /\ to_do = {}
    /\ completed = <<>>
    /\ iter = 0
    /\ meshes = {}
    /\ cancelled = {}
    /\ attach_failed = {}
    /\ attached = EmptyMap

\* no timing test is running
NoTiming ==
    /\ task_dur = 0
    /\ test_budget = 0

\* no raycast is being followed
NoRay ==
    /\ ray_in = <<>>
    /\ ray = <<>>

\* no voxel_raycast is being followed
NoVoxelRay ==
    /\ vray_in = <<>>
    /\ vray = <<>>

\* no mesh_chunk is being followed
NoMeshCall ==
    /\ mesh_coord = <<>>
    /\ mesh_call = <<>>

NoAux == NoTiming /\ NoRay /\ NoVoxelRay /\ NoMeshCall

\* a world without a mesher system
NoMesher ==
    /\ time_limit = 0
    /\ to_do = {}
    /\ completed = <<>>
    /\ iter = 0
    /\ meshes = {}
    /\ cancelled = {}
    /\ attach_failed = {}
    /\ attached = EmptyMap

InitTracker ==
    /\ InitWorld
    /\ InitDeltas
    /\ InitLimiter
    /\ NoMesher
    /\ NoAux
    /\ unread = [r \in TrackerReaders |-> <<>>]

HostInsert == \E idx \in Ids, coord \in ChunkCoords : InsertChunk(idx, coord)

HostRemove == \E idx \in Ids : RemoveChunk(idx)

NextTracker == HostInsert \/ HostRemove \/ TrackerRun

SpecTracker == InitTracker /\ [][NextTracker]_vars

(***************************************************************************)
(* Properties of the tracker                                               *)
(***************************************************************************)
MapsInverse ==
    /\ Cardinality(DOMAIN coord_to_ent) = Cardinality(DOMAIN idx_to_coord)
    /\ \A c \in ChunkCoords, i \in Ids :
          (c \in DOMAIN coord_to_ent /\ coord_to_ent[c] = i)
              <=> (i \in DOMAIN idx_to_coord /\ idx_to_coord[i] = c)

\* C1 as stated: for any sequence of insert/remove notifications the two maps
\* of the index have equal cardinality and are inverses of each other.
C1_AnySequence == MapsInverse

\* C1, amended: as long as no two chunks in storage ever carried the same
\* coordinate, the two maps of the index have equal cardinality and are
\* inverses of each other at every observation point.
C1_MapsInverse == unique_coords => MapsInverse

\* C1 witness: a run that processed a removal and an insertion left both maps
\* populated, under the uniqueness contract.
C1_Witness ==
    /\ unique_coords
    /\ last_run.removed # {}
    /\ last_run.inserted # {}
    /\ Cardinality(DOMAIN idx_to_coord) = 2

\* what one step does to the lookup of every chunk coordinate, given what the
\* tracker processed in that step (nothing, if the step is not a tracker run)
LookupFollowsRuns ==
    \A c \in ChunkCoords :
        /\ \A e \in Ids :
              <<e, c>> \in last_run'.inserted => get_chunk_ent(c)' = {e}
        /\ \A e \in Ids :
              (get_chunk_ent(c) = {e} /\ e \notin last_run'.removed)
                  => get_chunk_ent(c)' = {e}
        /\ ((\A e \in Ids : <<e, c>> \notin last_run'.inserted)
               /\ get_chunk_ent(c) \subseteq last_run'.removed)
                  => get_chunk_ent(c)' = {}

\* C2 as stated: once the tracker has processed the insertion of chunk e at c,
\* get_chunk_ent(c) is Some(e) until the tracker processes e's removal, and
\* None from then on while no other chunk is registered at c.
C2_Lookup == [][LookupFollowsRuns]_vars

\* C2, amended: the same, as long as no two chunks in storage ever carried
\* the same coordinate.
C2_LookupUnique == [][unique_coords' => LookupFollowsRuns]_vars

\* C2 witness: a registered chunk is looked up by its coordinate after a run
\* that processed another chunk's removal.
C2_Witness ==
    /\ unique_coords
    /\ last_run.removed = {2}
    /\ get_chunk_ent(<<0, 0, 0>>) = {1}
    /\ get_chunk_ent(<<-16, 0, 0>>) = {}

\* C3 as stated: every removal the host reports follows an insertion of the
\* same identity (RemoveChunk needs the chunk in storage), so the tracker
\* run never ends in the "removed but not present" abort.
C3_NoFatalRemoval == aborted # "removed but not present"

(***************************************************************************)
(* ChunkDeltas and ChunkDeltaSystem                                        *)
(***************************************************************************)
\* the voxels a caller defers: anything but the default
DeltaVoxels == Voxels \ {"Air"}

\* ChunkDeltas::defer_set: lock, push, unlock
DeferSet(coord, voxel) ==
    /\ Running
    /\ lock = "free"
    /\ appended < MaxDefer
    /\ pending' = Append(pending, [coord |-> coord, voxel |-> voxel, stamp |-> appended + 1])
    /\ appended' = appended + 1
    /\ UNCHANGED <<lock, batch, drained, applied, apply_batch>>
    /\ UNCHANGED worldVars
    /\ UNCHANGED <<limiterVars, mesherVars>>
    /\ UNCHANGED auxVars

\* mutant: the apply phase iterates over the list without draining it
DrainNone(p) == [yields |-> p, left |-> p]

\* Vec::drain(0..): the iterator yields every element, the vector is left empty
Drain(p) == [yields |-> p, left |-> <<>>]

\* ChunkDeltaSystem::run up to the loop: take the lock, start draining
ApplyBegin ==
    /\ Idle
    /\ TrackerReaders \subseteq DOMAIN unread
    /\ lock' = "apply"
    /\ batch' = Drain(pending).yields
    /\ pending' = Drain(pending).left
    /\ drained' = drained + Len(Drain(pending).yields)
    /\ apply_batch' = Drain(pending).yields
    /\ UNCHANGED <<appended, applied>>
    /\ UNCHANGED worldVars
    /\ UNCHANGED <<limiterVars, mesherVars>>
    /\ UNCHANGED auxVars

\* Chunk's IndexMut<VoxelCoord>, on the cells the model keeps
SetVoxel(chunk, local, voxel) ==
    IF local \in Cells
    THEN [chunk EXCEPT !.voxels[local] = voxel]
    ELSE chunk

\* the body of the apply loop for one drained entry: the new storage, the
\* panic it ends in (if any), and the entity it took mutable access to
ApplyEntry(store, c2e, entry) ==
    LET canon == canonicalize_chunk(entry.coord)
        ent == get_chunk_ent_in(c2e, canon)
        local == VSub(entry.coord, canon)
    IN  IF ent = {}
        THEN \* error!("no chunk entity found ..."); continue
             [chunks |-> store, aborted |-> "none", wrote |-> {}]
        ELSE LET e == CHOOSE x \in ent : TRUE
             IN  IF e \notin DOMAIN store
                 THEN \* chunks.get_mut(ent).unwrap()
                      [chunks |-> store, aborted |-> "unwrap on None", wrote |-> {}]
                 ELSE IF ~IndexInBounds(local)
                 THEN [chunks |-> store, aborted |-> "index out of bounds", wrote |-> {e}]
                 ELSE [chunks |-> [store EXCEPT ![e] = SetVoxel(store[e], local, entry.voxel)],
                       aborted |-> "none", wrote |-> {e}]

RECURSIVE EmitAll(_, _, _)
EmitAll(q, kind, ids) ==
    IF ids = {}
    THEN q
    ELSE LET i == CHOOSE x \in ids : TRUE
         IN  EmitAll(Emit(q, kind, i), kind, ids \ {i})

\* one iteration of the apply loop; a panic unwinds: the Drain drops what it
\* has not yielded and the guard releases the lock
ApplyStep ==
    /\ Running
    /\ lock = "apply"
    /\ batch # <<>>
    /\ LET res == ApplyEntry(chunks, coord_to_ent, Head(batch))
       IN  /\ chunks' = res.chunks
           /\ aborted' = res.aborted
           \* get_mut flags the chunk as modified
           /\ unread' = EmitAll(unread, "modified", res.wrote)
           /\ batch' = IF res.aborted = "none" THEN Tail(batch) ELSE <<>>
           /\ lock' = IF res.aborted = "none" THEN lock ELSE "free"
    /\ applied' = applied + 1
    /\ last_run' = NoRun
    /\ UNCHANGED <<coord_to_ent, idx_to_coord, debug, unique_coords>>
    /\ UNCHANGED <<pending, appended, drained, apply_batch>>
    /\ UNCHANGED <<limiterVars, mesherVars>>
    /\ UNCHANGED auxVars

\* the end of ChunkDeltaSystem::run: the guard is dropped
ApplyEnd ==
    /\ Running
    /\ lock = "apply"
    /\ batch = <<>>
    /\ lock' = "free"
    /\ apply_batch' = <<>>
    /\ UNCHANGED <<pending, batch, appended, drained, applied>>
    /\ UNCHANGED worldVars
    /\ UNCHANGED <<limiterVars, mesherVars>>
    /\ UNCHANGED auxVars

(***************************************************************************)
(* SpecDelta: the host, the tracker system and the delta system            *)
(***************************************************************************)
Defer == \E coord \in DeltaCoords, voxel \in DeltaVoxels : DeferSet(coord, voxel)

NextDelta ==
    \/ HostInsert
    \/ HostRemove
    \/ TrackerRun
    \/ Defer
    \/ ApplyBegin
    \/ ApplyStep
    \/ ApplyEnd

SpecDelta == InitTracker /\ [][NextDelta]_vars

(***************************************************************************)
(* Properties of the delta queue                                           *)
(***************************************************************************)
\* the voxel of the last entry of b for coordinate v
LastValue(b, v) ==
    LET at == {i \in 1..Len(b) : b[i].coord = v}
        last == CHOOSE i \in at : \A j \in at : j <= i
    IN  b[last].voxel

\* the entity whose chunk owns voxel v and is loaded: tagged with the chunk
\* coordinate that contains v, in storage, and found there by the index
LoadedOwner(v) ==
    {e \in DOMAIN chunks :
        /\ chunks[e].coord = OwnerCoord(v)
        /\ get_chunk_ent(OwnerCoord(v)) = {e}}

\* C4 as stated: when an apply phase ends, every coordinate of its batch
\* whose owning chunk is loaded holds the voxel of the last defer_set call
\* of the batch for that coordinate.
C4_LastWriteWins ==
    [][(lock = "apply" /\ lock' = "free" /\ aborted' = "none")
          => \A v \in DeltaCoords :
                (\E i \in 1..Len(apply_batch) : apply_batch[i].coord = v)
                    => \A e \in LoadedOwner(v)' :
                          chunks'[e].voxels[VSub(v, OwnerCoord(v))]
                              = LastValue(apply_batch, v)]_vars

Stamps(q) == [i \in 1..Len(q) |-> q[i].stamp]

\* the stamps a + 1, ..., b in order
Span(a, b) == [i \in 1..(b - a) |-> a + i]

\* C5: no defer_set entry is lost, drained twice or split: the entries not
\* yet drained are exactly the pending list, in call order; the entries
\* drained and not yet processed are exactly what the running apply phase
\* still holds; while the apply phase holds the lock the pending list is
\* empty, and outside an apply phase nothing drained is left unprocessed.
C5_DrainedOnce ==
    /\ Stamps(pending) = Span(drained, appended)
    /\ Running => Stamps(batch) = Span(applied, drained)
    /\ lock = "apply" => pending = <<>>
    /\ lock = "free" => batch = <<>>

\* C5 witness: a second apply phase is under way, after entries were
\* appended both before and after the first one.
C5_Witness ==
    /\ lock = "apply"
    /\ batch # <<>>
    /\ applied >= 1
    /\ Head(batch).stamp = 2
    /\ Len(apply_batch) = 1

\* the chunk the apply phase looks for is not in storage
TargetNotLoaded(entry) ==
    \A e \in DOMAIN chunks : chunks[e].coord # canonicalize_chunk(entry.coord)

\* C6 as stated: an entry whose chunk is not loaded is skipped without
\* aborting the apply phase, which goes on with the rest of the batch,
\* whether or not the index has processed the chunk's removal.
C6_SkipUnloaded ==
    [][(lock = "apply" /\ batch # <<>> /\ TargetNotLoaded(Head(batch)))
          => (aborted' = "none" /\ batch' = Tail(batch) /\ chunks' = chunks)]_vars

(***************************************************************************)
(* TimeLimiter (soft_time_limit)                                           *)
(*                                                                         *)
(* The clock counts whole ticks, the resolution of Duration; the estimate  *)
(* is an f64 number of seconds, kept here as a multiple of 1/EstScale of   *)
(* a tick.  A change of the estimate that is not zero in f64 is not zero   *)
(* here either: the amount taken off or added is rounded away from zero,   *)
(* so decaying a positive estimate always makes it smaller and a           *)
(* measurement moves it towards the measured duration, without reaching    *)
(* it: an estimate below the duration stays below it.  The clock           *)
(* advances while a task unit runs; the limiter's own bookkeeping takes no *)
(* measurable time.                                                        *)
(***************************************************************************)
\* to_duration: the whole ticks of an estimate, the fraction truncated
to_duration(est) == est \div EstScale

\* to_float: a duration as an estimate
to_float(d) == d * EstScale

\* n / m rounded up, for n >= 0
CeilDiv(n, m) == (n + m - 1) \div m

NoDecay(est) == est

\* TimeLimiter::frame: time_estimate *= decay, that is, the estimate loses
\* the fraction (1 - decay) of itself
Decay(est) == est - CeilDiv(est * (DecayDen - DecayNum), DecayDen)

\* the fraction smoothing of a gap between estimate and duration: not zero
\* when the gap is wider than one unit, and always short of the whole gap,
\* since 0 < smoothing < 1 puts the new estimate strictly between the two
SmoothMove(gap) ==
    LET part == CeilDiv(gap * SmoothingNum, SmoothingDen)
    IN  IF part < gap THEN part ELSE IF gap > 0 THEN gap - 1 ELSE 0

\* Task::drop: estimate * (1 - smoothing) + duration * smoothing, that is,
\* the estimate moves the fraction smoothing of the way to the duration
Smooth(est, d) ==
    IF to_float(d) >= est
    THEN est + SmoothMove(to_float(d) - est)
    ELSE est - SmoothMove(est - to_float(d))

have_time_always == TRUE

have_time_inclusive == now + to_duration(time_estimate) <= deadline

\* Frame::have_time
have_time == now + to_duration(time_estimate) < deadline

frameDecayTwice(budget) ==
    /\ time_estimate' = Decay(Decay(time_estimate))
    /\ now' = 0
    /\ deadline' = now' + budget
    /\ ran' = FALSE

\* TimeLimiter::frame(budget): decay the estimate, fix the deadline
frame(budget) ==
    /\ time_estimate' = Decay(time_estimate)
    /\ now' = 0
    /\ deadline' = now' + budget
    /\ ran' = FALSE

\* repeat_with_budget goes round the loop after a task unit of d ticks
FrameContinue(d) ==
    /\ pc' = "test"
    /\ now' = now + d
    /\ ran' = TRUE
    /\ UNCHANGED <<deadline, locked_out>>

\* repeat_with_budget returns: the Frame is dropped
FrameReturn(ranUnit) ==
    /\ pc' = "idle"
    /\ now' = 0
    /\ deadline' = 0
    /\ ran' = FALSE
    /\ locked_out' = (deadline > 0 /\ ~ranUnit)

\* repeat_with_budget(budget, f) up to the loop
RepeatBegin(budget) ==
    /\ Idle
    /\ frame(budget)
    /\ pc' = "test"
    /\ UNCHANGED <<should_continue, locked_out>>
    /\ UNCHANGED <<worldVars, deltaVars, mesherVars>>
    /\ UNCHANGED auxVars

\* while frame.have_time()
RepeatTest ==
    /\ Running
    /\ pc = "test"
    /\ IF have_time
       THEN pc' = "task" /\ UNCHANGED <<now, deadline, ran, locked_out>>
       ELSE FrameReturn(ran)
    /\ UNCHANGED <<time_estimate, should_continue>>
    /\ UNCHANGED <<worldVars, deltaVars, mesherVars>>
    /\ UNCHANGED auxVars

\* the loop body: one task unit of d ticks that returns cont; dropping the
\* Task folds the measured duration into the estimate
RepeatTask(d, cont) ==
    /\ Running
    /\ pc = "task"
    /\ time_estimate' = Smooth(time_estimate, d)
    /\ should_continue' = cont
    /\ IF cont
       THEN FrameContinue(d)
       ELSE FrameReturn(TRUE)
    /\ UNCHANGED <<worldVars, deltaVars, mesherVars>>
    /\ UNCHANGED auxVars

(***************************************************************************)
(* SpecLimiter: one TimeLimiter driven by repeat_with_budget with an       *)
(* arbitrary task                                                          *)
(***************************************************************************)
InitLimiterOnly ==
    /\ InitWorld
    /\ InitDeltas
    /\ InitLimiter
    /\ NoMesher
    /\ NoAux
    /\ unread = EmptyMap

Begin == \E budget \in 0..MaxBudget : RepeatBegin(budget)

BeginPositive == \E budget \in 1..MaxBudget : RepeatBegin(budget)

Task == \E d \in 0..MaxDur, cont \in BOOLEAN : RepeatTask(d, cont)

NextLimiter == Begin \/ RepeatTest \/ Task

SpecLimiter == InitLimiterOnly /\ [][NextLimiter]_vars

\* the caller keeps calling repeat_with_budget with a positive budget, and
\* every evaluation and every task unit terminates
SpecLimiterLive ==
    /\ SpecLimiter
    /\ WF_vars(RepeatTest)
    /\ WF_vars(Task)
    /\ SF_vars(BeginPositive)

(***************************************************************************)
(* Properties of the time limiter                                          *)
(***************************************************************************)
C9_Step ==
    \* have_time() is now + estimate < deadline, the estimate not truncated
    /\ have_time <=> (to_float(now) + time_estimate < to_float(deadline))
    \* a task unit is run only right after a have_time() that returned true
    /\ pc' = "task" => (pc = "test" /\ have_time /\ have_time')
    \* have_time() false: repeat_with_budget returns
    /\ (pc = "test" /\ ~have_time) => pc' = "idle"
    \* after a task unit it returns exactly when the unit returned false
    /\ pc = "task" => pc' = (IF should_continue' THEN "test" ELSE "idle")
    \* with a budget of zero no task unit runs
    /\ (pc' # "idle" /\ deadline' = 0) => (pc' # "task" /\ ~ran')

\* C9: repeat_with_budget runs a task unit only directly after have_time()
\* returned true, returns as soon as the task returns false or have_time()
\* returns false, and runs no task unit at all when the budget is zero.
C9_BudgetLoop == [][C9_Step]_vars

\* C9 witness: a second task unit of a frame is about to run, have_time()
\* having been evaluated again after the first one.
C9_Witness == pc = "task" /\ ran

\* C10: whatever the estimate has become, as frames with a positive budget
\* keep coming a task unit is executed again after finitely many of them.
C10_NoLockOut == []<>(pc = "task")

\* C10 witness: a task unit is about to run in a frame that follows a frame
\* which had a positive budget and ran nothing, the estimate being too high.
C10_Witness == pc = "task" /\ locked_out

(***************************************************************************)
(* ChunkMesherSystem                                                       *)
(***************************************************************************)
MesherReaders == {"m_ins", "m_mod", "m_rem"}

Range(q) == {q[i] : i \in 1..Len(q)}

\* Storage::get_mut on a FlaggedStorage: handing out &mut emits ModifiedFlag,
\* whatever the caller then does with the reference
GetMutChunk(idx) ==
    /\ Idle
    /\ idx \in DOMAIN chunks
    /\ CanEmit("modified")
    /\ unread' = Emit(unread, "modified", idx)
    /\ last_run' = NoRun
    /\ UNCHANGED <<chunks, coord_to_ent, idx_to_coord, aborted, debug, unique_coords>>
    /\ UNCHANGED <<deltaVars, limiterVars, mesherVars>>
    /\ UNCHANGED auxVars

\* ChunkTracker::get_chunk: the chunk of the entity the index has for coord
get_chunk(store, c2e, coord) ==
    {e \in get_chunk_ent_in(c2e, coord) : e \in DOMAIN store}

PopulateRemovedFirst(dirty, ins, mod, rem) == ((dirty \ rem) \cup ins) \cup mod

\* the start of ChunkMesherSystem::run: populate_inserted, populate_modified,
\* then every removed index is taken out
Populate(dirty, ins, mod, rem) == ((dirty \cup ins) \cup mod) \ rem

\* ChunkMesherSystem::run up to the first have_time()
MesherBegin ==
    /\ Idle
    /\ MesherReaders \subseteq DOMAIN unread
    /\ LET ins == Range(unread["m_ins"])
           mod == Range(unread["m_mod"])
           rem == Range(unread["m_rem"])
       IN  /\ to_do' = Populate(to_do, ins, mod, rem)
           /\ cancelled' = (cancelled \ (ins \cup mod)) \cup rem
    /\ unread' = ReadAll(ReadAll(ReadAll(unread, "m_ins"), "m_mod"), "m_rem")
    /\ completed' = <<>>
    /\ iter' = 0
    /\ attach_failed' = {}
    /\ frame(time_limit)
    /\ pc' = "test"
    /\ last_run' = NoRun
    /\ UNCHANGED <<should_continue, locked_out, time_limit, meshes, attached>>
    /\ UNCHANGED <<chunks, coord_to_ent, idx_to_coord, aborted, debug, unique_coords>>
    /\ UNCHANGED deltaVars
    /\ UNCHANGED auxVars

FinishClear(dirty, done) == {}

\* the end of ChunkMesherSystem::run: every completed index leaves to_do
Finish(dirty, done) == dirty \ Range(done)

\* repeat_with_budget returned: the rest of ChunkMesherSystem::run
MesherReturn(ranUnit) ==
    /\ FrameReturn(ranUnit)
    /\ to_do' = Finish(to_do, completed)
    /\ completed' = <<>>
    /\ iter' = 0
    /\ attach_failed' = {}

\* while frame.have_time()
MesherTest ==
    /\ Running
    /\ pc = "test"
    /\ IF have_time
       THEN /\ pc' = "task"
            /\ UNCHANGED <<now, deadline, ran, locked_out, to_do, completed, iter,
                           attach_failed>>
       ELSE MesherReturn(ran)
    /\ UNCHANGED <<time_estimate, should_continue>>
    /\ UNCHANGED <<time_limit, meshes, cancelled, attached>>
    /\ UNCHANGED <<worldVars, deltaVars>>
    /\ UNCHANGED auxVars

\* the unit vector of each direction, by discriminant + 1
NORMALS == <<(<<1, 0, 0>>), (<<0, 1, 0>>), (<<0, 0, 1>>),
             (<<-1, 0, 0>>), (<<0, -1, 0>>), (<<0, 0, -1>>)>>

\* the chunk an entity of the lookup result holds
ChunkOf(store, ents) == store[CHOOSE e \in ents : TRUE]

\* a neighbour that is never found
AdjacentAbsent(store, c2e, coord, d) == EmptyChunk(<<0, 0, 0>>)

\* tracker.get_chunk(chunks, adjacent_coord).unwrap_or(&empty)
Adjacent(store, c2e, coord, d) ==
    LET adjacent_coord == VAdd(coord, VScale(NORMALS[d], CHUNK_SIZE))
        found == get_chunk(store, c2e, adjacent_coord)
    IN  IF found = {} THEN EmptyChunk(<<0, 0, 0>>) ELSE ChunkOf(store, found)

\* what mesh_chunk reads for the chunk at coord: the voxels of the chunk
\* and those of the six adjacent chunks, an absent one being empty
MeshInputs(store, c2e, coord) ==
    [center |-> ChunkOf(store, get_chunk(store, c2e, coord)).voxels,
     adjacent |-> [d \in 1..6 |-> Adjacent(store, c2e, coord, d).voxels]]

\* result.unwrap(): an error ends the program
UnwrapResult(ok) == IF ok THEN "none" ELSE "insertion failed!"

\* let _ = result.map_err(|e| error!(..)): an error is logged and dropped
IgnoreResult(ok) == "none"

\* one call of the closure, which took d ticks: the next index of to_do in
\* ascending order is meshed; mesh_ok and material_ok tell whether
\* meshes.insert and materials.insert returned Ok
MesherTask(d, mesh_ok, material_ok) ==
    /\ Running
    /\ pc = "task"
    /\ time_estimate' = Smooth(time_estimate, d)
    /\ LET rest == {i \in to_do : i > iter}
       IN  IF rest = {}
           THEN \* iter.next() is None: the closure returns false
                /\ should_continue' = FALSE
                /\ MesherReturn(TRUE)
                /\ UNCHANGED <<meshes, aborted, attached>>
           ELSE LET idx == CHOOSE i \in rest : \A j \in rest : i <= j
                IN  /\ iter' = idx
                    /\ to_do' = to_do
                    /\ IF idx \notin DOMAIN chunks
                       THEN \* chunks.get(ent) is None: return true
                            /\ should_continue' = TRUE
                            /\ FrameContinue(d)
                            /\ UNCHANGED <<meshes, aborted, completed, attach_failed,
                                           attached>>
                       ELSE IF get_chunk(chunks, coord_to_ent, chunks[idx].coord) = {}
                       THEN \* mesh_chunk panics; the Task is dropped while unwinding
                            /\ aborted' = "can't mesh nonexistent chunk!"
                            /\ pc' = "idle"
                            /\ UNCHANGED <<meshes, completed, should_continue,
                                           attach_failed, attached>>
                            /\ UNCHANGED <<now, deadline, ran, locked_out>>
                       ELSE /\ meshes' = IF mesh_ok THEN meshes \cup {idx} ELSE meshes
                            /\ attached' =
                                  IF mesh_ok
                                  THEN MapPut(attached, idx,
                                              MeshInputs(chunks, coord_to_ent,
                                                         chunks[idx].coord))
                                  ELSE attached
                            /\ attach_failed' = IF mesh_ok /\ material_ok
                                                THEN attach_failed
                                                ELSE attach_failed \cup {idx}
                            /\ aborted' = IF IgnoreResult(mesh_ok) # "none"
                                          THEN IgnoreResult(mesh_ok)
                                          ELSE IgnoreResult(material_ok)
                            /\ completed' = Append(completed, idx)
                            /\ should_continue' = TRUE
                            /\ FrameContinue(d)
    /\ UNCHANGED <<time_limit, cancelled>>
    /\ UNCHANGED <<chunks, unread, coord_to_ent, idx_to_coord, debug,
                   unique_coords, last_run>>
    /\ UNCHANGED deltaVars
    /\ UNCHANGED auxVars

(***************************************************************************)
(* SpecMesher: the host, the tracker system and the mesher system          *)
(***************************************************************************)
InitMesherWorld ==
    /\ InitWorld
    /\ InitDeltas
    /\ InitLimiter
    /\ InitMesher
    /\ NoAux
    /\ unread = [r \in TrackerReaders \cup MesherReaders |-> <<>>]

HostGetMut == \E idx \in Ids : GetMutChunk(idx)

Mesh == \E d \in 0..MaxDur : \E mesh_ok, material_ok \in BOOLEAN :
            MesherTask(d, mesh_ok, material_ok)

NextMesher ==
    \/ HostInsert
    \/ HostRemove
    \/ HostGetMut
    \/ TrackerRun
    \/ MesherBegin
    \/ MesherTest
    \/ Mesh

SpecMesher == InitMesherWorld /\ [][NextMesher]_vars

(***************************************************************************)
(* Properties of the mesher system                                         *)
(***************************************************************************)
C7_Step ==
    \* an id leaves the dirty set only if this run meshed it or this run
    \* processed its removal
    /\ \A id \in to_do \ to_do' :
          \/ id \in Range(completed) /\ id \in meshes \cup attach_failed
          \/ pc = "idle" /\ pc' = "test" /\ id \in Range(unread["m_rem"])
    \* completed holds the ids of the dirty set meshed in the current run
    /\ completed' # completed =>
          \/ completed' = <<>>
          \/ \E id \in to_do \cap (meshes' \cup attach_failed') :
                pc = "task" /\ completed' = Append(completed, id)

\* C7: a dirty id that a run did not mesh is still in the dirty set when
\* the next run starts; a run removes an id from the dirty set only if it
\* meshed that id or processed a removal notification for it.
C7_DirtyPersists == [][C7_Step]_vars

\* C7 witness: between two runs with a positive time limit, chunk 1 has been
\* meshed and has left the dirty set, chunk 2 is loaded, has no mesh yet and
\* is still dirty.
C7_Witness ==
    /\ Running
    /\ pc = "idle"
    /\ time_limit > 0
    /\ 1 \in meshes \ to_do
    /\ 2 \in to_do \ meshes
    /\ get_chunk(chunks, coord_to_ent, <<0, 0, 0>>) = {2}

\* an insert or modify notification the mesher has not read yet
LaterNotified(id) == id \in Range(unread["m_ins"]) \cup Range(unread["m_mod"])

\* C8: once a mesher run has processed a removal notification for an id,
\* the id is not in the dirty set and no mesh is generated for it, unless an
\* insert or modify notification for it has arrived since that run.
C8_RemovalCancels ==
    \A id \in cancelled :
        LaterNotified(id) \/ (id \notin to_do /\ id \notin Range(completed))

\* C8 witness: chunk 1 was meshed, then removed; a run that has processed
\* the removal, with nothing newer about chunk 1, has meshed chunk 2.
C8_Witness ==
    /\ 1 \in cancelled
    /\ 1 \in meshes
    /\ ~LaterNotified(1)
    /\ completed = <<2>>

\* estimate * (1 - smoothing) + duration * smoothing, times SmoothingDen
SmoothExact(est, d) == est * (SmoothingDen - SmoothingNum) + to_float(d) * SmoothingNum

\* e is the exact update of est by a unit of d ticks, to within one unit of
\* the fixed-point estimate
IsSmoothed(e, est, d) ==
    /\ e * SmoothingDen > SmoothExact(est, d) - SmoothingDen
    /\ e * SmoothingDen < SmoothExact(est, d) + SmoothingDen

C11_Step ==
    \* entering repeat_with_budget decays the estimate, once
    /\ (pc = "idle" /\ pc' # "idle") =>
          /\ time_estimate' = Decay(time_estimate)
          /\ time_estimate' * DecayDen <= time_estimate * DecayNum
          /\ time_estimate' * DecayDen > time_estimate * DecayNum - DecayDen
    \* every executed task unit, the last one included, updates it once
    /\ pc = "task" =>
          \E d \in 0..MaxDur :
              /\ IsSmoothed(time_estimate', time_estimate, d)
              /\ pc' = "test" => now' = now + d
    \* nothing else touches it
    /\ (pc = "test" \/ (pc = "idle" /\ pc' = "idle")) => time_estimate' = time_estimate

InitTiming ==
    /\ InitWorld
    /\ InitDeltas
    /\ InitLimiter
    /\ NoMesher
    /\ unread = EmptyMap
    /\ task_dur \in 1..MaxDur
    /\ test_budget \in task_dur..MaxTestBudget
    /\ NoRay
    /\ NoVoxelRay
    /\ NoMeshCall

\* limit.repeat_with_budget(budget, ..) / limit.frame(budget)
TimingBegin == RepeatBegin(test_budget)

\* sleep(task_dur); tasks += 1.0; true
TimingTask == RepeatTask(task_dur, TRUE)

NextTiming == TimingBegin \/ RepeatTest \/ TimingTask

SpecTiming == InitTiming /\ [][NextTiming]_vars

\* the task units a call has executed: the clock advances by task_dur in
\* each of them and not otherwise
UnitsRun == now \div task_dur

\* C12: with a task unit of constant duration m that always reports more
\* work and a budget B >= m, every call runs at least floor(B/m) and at most
\* ceil(B/m) task units.
C12_UnitsPerCall ==
    [][(pc = "test" /\ pc' = "idle") =>
          /\ UnitsRun >= test_budget \div task_dur
          /\ UnitsRun <= CeilDiv(test_budget, task_dur)]_vars

\* C12 witness: a call is about to return after two units of two ticks each,
\* the estimate having grown to more than one tick.
C12_Witness ==
    /\ pc = "test"
    /\ ~have_time
    /\ task_dur = 2
    /\ UnitsRun = 2
    /\ time_estimate > EstScale


(***************************************************************************)
(* f32 values as exact fractions <<numerator, denominator>>, denominator   *)
(* positive and the fraction reduced; <<1, 0>> is +inf, <<-1, 0>> is -inf, *)
(* <<0, 0>> is NaN.  The inputs drawn below are dyadic (halves, quarters,  *)
(* small integers), for which every f32 operation of raycast is exact.     *)
(***************************************************************************)
RECURSIVE Gcd(_, _)
Gcd(a, b) == IF b = 0 THEN a ELSE Gcd(b, a % b)

Abs(a) == IF a < 0 THEN -a ELSE a

\* i16::signum
Sgn(a) == IF a > 0 THEN 1 ELSE IF a < 0 THEN -1 ELSE 0

Frac(n, d) ==
    LET g == Gcd(Abs(n), Abs(d))
        s == IF d < 0 THEN -1 ELSE 1
    IN  <<(s * n) \div g, (s * d) \div g>>

INFINITY == <<1, 0>>

NAN == <<0, 0>>

FInt(i) == <<i, 1>>

is_nan(a) == a = NAN

FAdd(a, b) ==
    IF a[2] = 0 /\ b[2] = 0 THEN (IF a = b THEN a ELSE NAN)
    ELSE IF a[2] = 0 THEN a
    ELSE IF b[2] = 0 THEN b
    ELSE Frac(a[1] * b[2] + b[1] * a[2], a[2] * b[2])

FNeg(a) == <<-a[1], a[2]>>

FSub(a, b) == FAdd(a, FNeg(b))

FMul(a, b) ==
    IF a[2] = 0 \/ b[2] = 0 THEN <<Sgn(a[1]) * Sgn(b[1]), 0>>
    ELSE Frac(a[1] * b[1], a[2] * b[2])

\* a / b for finite a and b; a zero b is +0.0
FDiv(a, b) ==
    IF b[1] = 0 THEN <<Sgn(a[1]), 0>>
    ELSE Frac(a[1] * b[2], a[2] * b[1])

FLt(a, b) ==
    /\ ~is_nan(a)
    /\ ~is_nan(b)
    /\ IF a[2] = 0 /\ b[2] = 0 THEN a[1] < b[1] ELSE a[1] * b[2] < b[1] * a[2]

FLeq(a, b) ==
    /\ ~is_nan(a)
    /\ ~is_nan(b)
    /\ IF a[2] = 0 /\ b[2] = 0 THEN a[1] <= b[1] ELSE a[1] * b[2] <= b[1] * a[2]

\* f32::signum: 1.0 for +0.0 and above, -1.0 below
FSignum(a) == IF is_nan(a) THEN NAN ELSE IF a[1] < 0 THEN FInt(-1) ELSE FInt(1)

\* f32::round of a finite value, as an integer: half rounds away from zero
Round(a) ==
    IF a[1] >= 0 THEN (2 * a[1] + a[2]) \div (2 * a[2])
    ELSE -((2 * (-a[1]) + a[2]) \div (2 * a[2]))

\* canonicalize: the voxel a point lies in
canonicalize(c) == <<Round(c[1]), Round(c[2]), Round(c[3])>>

\* a VoxelCoord as a Coord
ToCoord(v) == <<FInt(v[1]), FInt(v[2]), FInt(v[3])>>

\* start + direction * t
PointAt(start, direction, t) ==
    <<FAdd(start[1], FMul(direction[1], t)),
      FAdd(start[2], FMul(direction[2], t)),
      FAdd(start[3], FMul(direction[3], t))>>

(***************************************************************************)
(* raycast: fast voxel traversal inside one box                            *)
(***************************************************************************)
FaceOf == <<"X", "Y", "Z">>

\* the arguments of one call; the predicate is the set of voxels it holds for
RayArgs(start_voxel, start, direction, min, max, interesting) ==
    [start_voxel |-> start_voxel, start |-> start, direction |-> direction,
     min |-> min, max |-> max, interesting |-> interesting]

\* init(v_c, c, dc): <<t_max_c, t_dc>>
init(v_c, c, dc) ==
    LET max_c == FAdd(FInt(v_c), FMul(FSignum(dc), <<1, 2>>))
        t_max_c == FDiv(FSub(max_c, c), dc)
    IN  <<IF FLt(t_max_c, FInt(0)) THEN INFINITY ELSE t_max_c,
          FDiv(FInt(1), dc)>>

\* step_x, step_y, step_z
StepOf(in) ==
    LET step == canonicalize(in.direction)
    IN  <<Sgn(step[1]), Sgn(step[2]), Sgn(step[3])>>

\* lim_x, lim_y, lim_z
LimOf(in) ==
    [a \in 1..3 |-> IF StepOf(in)[a] > 0 THEN in.max[a] ELSE in.min[a]]

\* t_dx, t_dy, t_dz
DeltaOf(in) ==
    [a \in 1..3 |-> init(in.start_voxel[a], in.start[a], in.direction[a])[2]]

\* the start voxel lies in the inclusive box [min, max]
InsideBox(in) ==
    LET x == in.start_voxel[1]
        y == in.start_voxel[2]
        z == in.start_voxel[3]
    IN  /\ in.min[1] <= x /\ x <= in.max[1]
        /\ in.min[2] <= y /\ y <= in.max[2]
        /\ in.min[3] <= z /\ z <= in.max[3]

\* the three assertions on the start voxel
StartAsserts(in) ==
    LET x == in.start_voxel[1]
        y == in.start_voxel[2]
        z == in.start_voxel[3]
    IN  /\ in.min[1] <= x /\ x <= in.max[1]
        /\ in.min[2] <= y /\ x <= in.max[2]
        /\ in.min[3] <= z /\ x <= in.max[3]

NanAsserts(in) ==
    /\ \A a \in 1..3 : ~is_nan(in.start[a])
    /\ \A a \in 1..3 : ~is_nan(in.direction[a])

RayCalled(in) ==
    [pc |-> "call", pos |-> in.start_voxel, t_max |-> <<>>, evals |-> <<>>,
     ret |-> <<>>]

Returned(st, face, end, end_voxel, hit) ==
    [st EXCEPT !.pc = "done",
               !.pos = end_voxel,
               !.ret = [face_hit |-> face, end |-> end, end_voxel |-> end_voxel,
                        hit_interesting |-> hit]]

\* the assertions run before the predicate is asked about the start voxel
RayEnterAssertFirst(in) ==
    LET st == RayCalled(in)
    IN  IF ~(NanAsserts(in) /\ StartAsserts(in))
        THEN [st EXCEPT !.pc = "panic"]
        ELSE IF in.start_voxel \in in.interesting
        THEN Returned([st EXCEPT !.evals = <<in.start_voxel>>],
                      "Contained", in.start, in.start_voxel, TRUE)
        ELSE [st EXCEPT !.pc = "loop",
                        !.evals = <<in.start_voxel>>,
                        !.t_max = [a \in 1..3 |->
                            init(in.start_voxel[a], in.start[a], in.direction[a])[1]]]

\* raycast up to its loop
RayEnter(in) ==
    LET st == [RayCalled(in) EXCEPT !.evals = <<in.start_voxel>>]
    IN  IF in.start_voxel \in in.interesting
        THEN Returned(st, "Contained", in.start, in.start_voxel, TRUE)
        ELSE IF ~(NanAsserts(in) /\ StartAsserts(in))
        THEN [st EXCEPT !.pc = "panic"]
        ELSE [st EXCEPT !.pc = "loop",
                        !.t_max = [a \in 1..3 |->
                            init(in.start_voxel[a], in.start[a], in.direction[a])[1]]]

\* the axis one loop iteration advances
AxisZFirst(t) ==
    IF FLeq(t[3], t[1]) /\ FLeq(t[3], t[2]) THEN 3
    ELSE IF FLt(t[2], t[1]) THEN 2
    ELSE 1

Axis(t) ==
    IF FLeq(t[1], t[2]) /\ FLeq(t[1], t[3]) THEN 1
    ELSE IF FLt(t[2], t[1]) /\ FLeq(t[2], t[3]) THEN 2
    ELSE 3

\* a branch that asks the predicate before it looks at the limit
AdvanceEvalFirst(in, st, a) ==
    LET cur == [st.pos EXCEPT ![a] = @ + StepOf(in)[a]]
        hit_border == cur[a] = LimOf(in)[a]
        end == PointAt(in.start, in.direction, st.t_max[a])
        asked == [st EXCEPT !.evals = Append(@, cur)]
    IN  IF cur \in in.interesting \/ hit_border
        THEN Returned(asked, FaceOf[a], end, cur, ~hit_border)
        ELSE [asked EXCEPT !.pos = cur,
                           !.t_max[a] = FAdd(@, DeltaOf(in)[a])]

\* one branch of the loop, for axis a
Advance(in, st, a) ==
    LET cur == [st.pos EXCEPT ![a] = @ + StepOf(in)[a]]
        hit_border == cur[a] = LimOf(in)[a]
        end == PointAt(in.start, in.direction, st.t_max[a])
    IN  IF hit_border
        THEN Returned(st, FaceOf[a], end, cur, FALSE)
        ELSE IF cur \in in.interesting
        THEN Returned([st EXCEPT !.evals = Append(@, cur)], FaceOf[a], end, cur, TRUE)
        ELSE [st EXCEPT !.pos = cur,
                        !.evals = Append(@, cur),
                        !.t_max[a] = FAdd(@, DeltaOf(in)[a])]

\* one iteration of the loop
RayLoop(in, st) == Advance(in, st, Axis(st.t_max))

(***************************************************************************)
(* raycast, followed one loop iteration at a time                          *)
(***************************************************************************)
\* direction components
DirAxis == {<<-2, 1>>, <<-1, 1>>, <<0, 1>>, <<1, 4>>, <<1, 1>>, <<2, 1>>}

Directions == DirAxis \X DirAxis \X DirAxis

\* where the start point lies in its voxel, relative to the centre
Offsets == {<<(<<0, 1>>), (<<0, 1>>), (<<0, 1>>)>>,
            <<(<<1, 4>>), (<<0, 1>>), (<<-1, 4>>)>>}

\* <<min, max>>
Boxes == {<<(<<-3, -3, -3>>), (<<3, 3, 3>>)>>, <<(<<-3, -3, -3>>), (<<3, 1, 3>>)>>}

StartVoxels == {<<0, 0, 0>>, <<-3, 0, 0>>, <<2, 0, 0>>, <<0, 2, 0>>,
                <<4, 0, 0>>, <<0, 4, 0>>, <<0, 0, -4>>}

\* the predicates tried for a ray: never true, true at the start voxel, true
\* only at the voxel the direction vector points to from the start voxel,
\* true only at the neighbour one step along Y
Predicates(sv, d) ==
    {{}, {sv}, {VAdd(sv, canonicalize(d))}, {VAdd(sv, <<0, Sgn(Round(d[2])), 0>>)}}

InitRay ==
    /\ \E sv \in StartVoxels, off \in Offsets, d \in Directions, box \in Boxes :
         \E p \in Predicates(sv, d) :
            ray_in = RayArgs(sv, PointAt(ToCoord(sv), off, FInt(1)), d,
                             box[1], box[2], p)
    /\ ray = RayCalled(ray_in)

InitRaycast ==
    /\ InitWorld
    /\ InitDeltas
    /\ InitLimiter
    /\ NoMesher
    /\ NoTiming
    /\ NoVoxelRay
    /\ NoMeshCall
    /\ unread = EmptyMap
    /\ InitRay

RaycastCall ==
    /\ ray.pc = "call"
    /\ ray' = RayEnter(ray_in)
    /\ UNCHANGED <<ray_in, worldVars, deltaVars, limiterVars, mesherVars, timingVars, vrayVars, meshCallVars>>

RaycastStep ==
    /\ ray.pc = "loop"
    /\ Len(ray.evals) <= MaxIters
    /\ ray' = RayLoop(ray_in, ray)
    /\ UNCHANGED <<ray_in, worldVars, deltaVars, limiterVars, mesherVars, timingVars, vrayVars, meshCallVars>>

NextRaycast == RaycastCall \/ RaycastStep

SpecRaycast == InitRaycast /\ [][NextRaycast]_vars

StartInteresting == ray_in.start_voxel \in ray_in.interesting

Tied(t) == {a \in 1..3 : \A b \in 1..3 : FLeq(t[a], t[b])}

FirstOf(axes) == CHOOSE a \in axes : \A b \in axes : a <= b

C14_Step ==
    (ray.pc = "loop" /\ ray' # ray /\ Cardinality(Tied(ray.t_max)) >= 2) =>
        LET a == FirstOf(Tied(ray.t_max))
        IN  /\ ray'.pos = [ray.pos EXCEPT ![a] = @ + StepOf(ray_in)[a]]
            /\ ray'.pc = "done" => ray'.ret.face_hit = FaceOf[a]
            /\ ray'.pc = "loop" =>
                   ray'.t_max = [ray.t_max EXCEPT ![a] = FAdd(@, DeltaOf(ray_in)[a])]

\* C14: when two or three axes tie for the smallest remaining parametric
\* distance, the loop advances the first of them in the order X, Y, Z and
\* no other, whatever the predicate and the signs of the direction
C14_TieBreak == [][C14_Step]_vars

\* a three-way tie with a negative X component, resolved for X although the
\* predicate holds for the neighbour along Y
C14_Witness ==
    /\ ray.pc = "loop"
    /\ ray_in.direction = <<(<<-1, 1>>), (<<1, 1>>), (<<1, 1>>)>>
    /\ ray_in.start = ToCoord(ray_in.start_voxel)
    /\ ray_in.interesting = {VAdd(ray_in.start_voxel, <<0, 1, 0>>)}
    /\ ray.evals = <<ray_in.start_voxel, VAdd(ray_in.start_voxel, <<-1, 0, 0>>)>>

NeverInteresting == ray_in.interesting = {}

AxisOfFace(f) == CHOOSE a \in 1..3 : FaceOf[a] = f

\* the direction has one non-zero component
AxisAligned(d) == Cardinality({a \in 1..3 : d[a] # FInt(0)}) = 1

\* the shape of a border result
BorderShape ==
    LET a == AxisOfFace(ray.ret.face_hit)
    IN  /\ ray.ret.hit_interesting = FALSE
        /\ ray.ret.face_hit \in {"X", "Y", "Z"}
        /\ ray.ret.end_voxel[a] = LimOf(ray_in)[a]
        /\ AxisAligned(ray_in.direction) =>
               \A b \in (1..3) \ {a} : ray.ret.end_voxel[b] = ray_in.start_voxel[b]

C15_Shape == (NeverInteresting /\ InsideBox(ray_in) /\ ray.pc = "done") => BorderShape

\* the voxels between the start voxel and the box limits: no walk towards
\* the limits enters more voxels than this before it is on one of them
Reach(in) ==
    Abs(LimOf(in)[1] - in.start_voxel[1]) + Abs(LimOf(in)[2] - in.start_voxel[2])
        + Abs(LimOf(in)[3] - in.start_voxel[3])

\* C15: with a never-true predicate and a start voxel inside the box,
\* raycast returns (it does not abort, and it does not go on asking the
\* predicate about more voxels than lie between the start voxel and the box
\* limits), and what it returns is a border result on the box limit of the
\* reported axis in the direction of travel; an axis-aligned ray keeps the
\* two other coordinates of its start voxel
C15_BorderResult ==
    (NeverInteresting /\ InsideBox(ray_in) /\ ray.pc # "call") =>
        /\ ray.pc # "panic"
        /\ Len(ray.evals) <= 1 + Reach(ray_in)
        /\ C15_Shape

\* the same for the calls that pass the assertions on the start voxel
C15_ReturnsWhenAdmitted == StartAsserts(ray_in) => C15_BorderResult

\* the voxel the direction vector points to from the start voxel
Target == VAdd(ray_in.start_voxel, canonicalize(ray_in.direction))

StrictlyInside(v, min, max) == \A a \in 1..3 : min[a] < v[a] /\ v[a] < max[a]

\* the ray starts at the centre of its start voxel, its direction is the
\* vector to a target voxel strictly inside the box, and the predicate holds
\* for the target only
AimedAtTarget ==
    /\ ray_in.start = ToCoord(ray_in.start_voxel)
    /\ ray_in.direction = ToCoord(canonicalize(ray_in.direction))
    /\ ray_in.interesting = {Target}
    /\ StrictlyInside(Target, ray_in.min, ray_in.max)
    /\ InsideBox(ray_in)

HitTarget ==
    /\ ray.pc = "done"
    /\ ray.ret.end_voxel = Target
    /\ ray.ret.hit_interesting

\* C16: a ray from the centre of its start voxel along the vector to a
\* target voxel strictly inside the box, in any octant, with a predicate
\* true only at the target, returns the target as an interesting hit: it
\* does not abort, does not return anything else, and does not go on past
\* the voxels between the start voxel and the box limits
C16_HitsTarget ==
    (AimedAtTarget /\ ray.pc # "call") =>
        /\ ray.pc # "panic"
        /\ ray.pc = "done" => HitTarget
        /\ Len(ray.evals) <= 1 + Reach(ray_in)

\* the same for the targets with no coordinate below the start voxel's
C16_NonNegativeOctant ==
    (StartAsserts(ray_in) /\ \A a \in 1..3 : ray_in.direction[a][1] >= 0) => C16_HitsTarget

\* the same for axis-aligned rays in any direction
C16_AxisAligned ==
    (StartAsserts(ray_in) /\ AxisAligned(ray_in.direction)) => C16_HitsTarget

\* the same for the calls that pass the assertions on the start voxel
C16_WhenAdmitted == StartAsserts(ray_in) => C16_HitsTarget

\* C17: for NaN-free inputs and a start voxel the predicate does not hold
\* for, raycast aborts on entry exactly when the start voxel lies outside
\* the inclusive box [min, max] on some axis
C17_AbortIffOutside ==
    (NanAsserts(ray_in) /\ ~StartInteresting /\ ray.pc # "call") =>
        (ray.pc = "panic" <=> ~InsideBox(ray_in))

\* one direction of it, for a cubic box: a start voxel the call aborts on
\* lies outside the box
C17_CubicAbortOnlyOutside ==
    (NanAsserts(ray_in) /\ ~StartInteresting /\ ray.pc = "panic"
        /\ ray_in.max[1] = ray_in.max[2] /\ ray_in.max[2] = ray_in.max[3]) =>
        ~InsideBox(ray_in)

\* a border voxel of the box: on the min or the max plane of some axis
OnBorder(v, min, max) == \E a \in 1..3 : v[a] = min[a] \/ v[a] = max[a]

RECURSIVE RayRun(_, _, _)
RayRun(in, st, fuel) ==
    IF st.pc = "loop" /\ fuel > 0 THEN RayRun(in, RayLoop(in, st), fuel - 1) ELSE st

raycast(in) == RayRun(in, RayEnter(in), MaxRun)

\* i16 division: truncates toward zero
TruncDiv(a, n) == IF a >= 0 THEN a \div n ELSE -((-a) \div n)

VTruncDiv(v, n) == <<TruncDiv(v[1], n), TruncDiv(v[2], n), TruncDiv(v[3], n)>>

OFFSET_F == FSub(Frac(CHUNK_SIZE, 2), <<1, 2>>)

to_chunk(c) ==
    <<FMul(FSub(c[1], OFFSET_F), Frac(1, CHUNK_SIZE)),
      FMul(FSub(c[2], OFFSET_F), Frac(1, CHUNK_SIZE)),
      FMul(FSub(c[3], OFFSET_F), Frac(1, CHUNK_SIZE))>>

from_chunk(c) ==
    <<FAdd(FMul(FInt(CHUNK_SIZE), c[1]), OFFSET_F),
      FAdd(FMul(FInt(CHUNK_SIZE), c[2]), OFFSET_F),
      FAdd(FMul(FInt(CHUNK_SIZE), c[3]), OFFSET_F)>>

\* the opposite test: only Air blocks the view
transparent_inverted(voxel) == voxel # "Air"

is_transparent(voxel) == voxel = "Air"

\* chunk[index], for an index inside the array
VoxelAt(chunk, index) ==
    IF index \in DOMAIN chunk.voxels THEN chunk.voxels[index] ELSE "Air"

VoxelSpace == Int \X Int \X Int

\* |v| !chunk[v - cur_chunk_v].is_transparent()
Opaque(chunk, cur_chunk_v) ==
    {v \in VoxelSpace : /\ IndexInBounds(VSub(v, cur_chunk_v))
                        /\ ~is_transparent(VoxelAt(chunk, VSub(v, cur_chunk_v)))}

\* chunk[v - cur_chunk_v] was asked for an index outside the array
IndexFault(hit, cur_chunk_v) ==
    \E i \in 1..Len(hit.evals) : ~IndexInBounds(VSub(hit.evals[i], cur_chunk_v))

\* |v| tracker.get_chunk(storage, v * SIZE_I).is_some()
LoadedChunks(store, c2e) ==
    {v \in VoxelSpace : get_chunk(store, c2e, VScale(v, CHUNK_SIZE)) # {}}

VoxelRayArgs(coord, direction, min_chunk, max_chunk) ==
    [coord |-> coord, direction |-> direction, min_chunk |-> min_chunk,
     max_chunk |-> max_chunk]

VoxelCalled(in) ==
    [pc |-> "call", cur_coord_v |-> in.coord, cur_voxel_v |-> <<>>, legs |-> 0,
     ret |-> <<>>]

\* voxel_raycast up to its loop
VoxelEnter(in) ==
    [VoxelCalled(in) EXCEPT !.pc = "loop", !.cur_voxel_v = canonicalize(in.coord)]

\* the bounds voxel_raycast gives the raycast inside the chunk at cur_chunk_v
ChunkBox(cur_chunk_v) ==
    <<VSub(cur_chunk_v, <<-1, -1, -1>>),
      VAdd(cur_chunk_v, <<CHUNK_SIZE, CHUNK_SIZE, CHUNK_SIZE>>)>>

\* the loop body when the chunk of the current voxel is loaded
InChunk(in, st, chunk) ==
    LET cur_chunk_v == canonicalize_chunk(st.cur_voxel_v)
        hit == raycast(RayArgs(st.cur_voxel_v, st.cur_coord_v, in.direction,
                               ChunkBox(cur_chunk_v)[1], ChunkBox(cur_chunk_v)[2],
                               Opaque(chunk, cur_chunk_v)))
    IN  IF IndexFault(hit, cur_chunk_v) \/ hit.pc = "panic"
        THEN [st EXCEPT !.pc = "panic"]
        ELSE IF hit.pc = "loop"
        THEN [st EXCEPT !.pc = "hang"]
        ELSE IF \/ hit.ret.hit_interesting
                \/ \E a \in 1..3 : \/ hit.ret.end_voxel[a] <= in.min_chunk[a]
                                   \/ hit.ret.end_voxel[a] >= in.max_chunk[a]
        THEN [st EXCEPT !.pc = "done", !.ret = hit.ret]
        ELSE [st EXCEPT !.cur_coord_v = hit.ret.end,
                        !.cur_voxel_v = hit.ret.end_voxel,
                        !.legs = @ + 1]

\* every component is a number
Finite(c) == \A a \in 1..3 : c[a][2] # 0

\* the loop body when the chunk of the current voxel is not loaded
BetweenChunks(in, st, store, c2e) ==
    LET cur_voxel_c == VTruncDiv(canonicalize_chunk(st.cur_voxel_v), CHUNK_SIZE)
        cur_coord_c == to_chunk(st.cur_coord_v)
        hit_c == raycast(RayArgs(cur_voxel_c, cur_coord_c, in.direction,
                                 VTruncDiv(in.min_chunk, CHUNK_SIZE),
                                 VTruncDiv(in.max_chunk, CHUNK_SIZE),
                                 LoadedChunks(store, c2e)))
    IN  IF hit_c.pc = "panic"
        THEN [st EXCEPT !.pc = "panic"]
        ELSE IF hit_c.pc = "loop"
        THEN [st EXCEPT !.pc = "hang"]
        ELSE IF ~Finite(hit_c.ret.end)
        THEN [st EXCEPT !.pc = "nan"]
        ELSE
        LET cur_coord_v == from_chunk(hit_c.ret.end)
            rounded == canonicalize(cur_coord_v)
            err == VSub(hit_c.ret.end_voxel, canonicalize(hit_c.ret.end))
            cur_voxel_v == IF err # <<0, 0, 0>> THEN VAdd(rounded, err) ELSE rounded
        IN  IF err # <<0, 0, 0>> /\ ~(\A a \in 1..3 : Abs(err[a]) <= 1)
            THEN [st EXCEPT !.pc = "panic"]
            ELSE IF /\ err # <<0, 0, 0>>
                    /\ canonicalize_chunk(cur_voxel_v)
                           # VScale(hit_c.ret.end_voxel, CHUNK_SIZE)
            THEN [st EXCEPT !.pc = "panic"]
            ELSE IF ~hit_c.ret.hit_interesting
            THEN [st EXCEPT !.pc = "done",
                            !.ret = [hit_c.ret EXCEPT !.end = cur_coord_v,
                                                      !.end_voxel = cur_voxel_v]]
            ELSE [st EXCEPT !.cur_coord_v = cur_coord_v,
                            !.cur_voxel_v = cur_voxel_v,
                            !.legs = @ + 1]

(***************************************************************************)
(* voxel_raycast, followed one iteration of its loop at a time             *)
(***************************************************************************)
\* the chunks that may be loaded, by entity index
RayChunks == <<(<<0, 0, 0>>), (<<16, 0, 0>>), (<<-16, 0, 0>>)>>

\* where the rays start (voxel centres)
RayStarts == {<<1, 1, 1>>, <<5, 2, 0>>, <<20, 3, 3>>, <<-5, 1, 1>>}

RayDirections == {<<1, 0, 0>>, <<-1, 0, 0>>, <<0, 1, 0>>, <<0, 0, -1>>,
                  <<2, 1, 0>>, <<1, 1, 1>>}

\* <<min_chunk, max_chunk>>
SearchBoxes == {<<(<<-32, -32, -32>>), (<<48, 48, 48>>)>>,
                <<(<<-16, -16, -16>>), (<<32, 16, 16>>)>>}

InitVoxelRay ==
    /\ \E c \in RayStarts, d \in RayDirections, box \in SearchBoxes :
          vray_in = VoxelRayArgs(ToCoord(c), ToCoord(d), box[1], box[2])
    /\ vray = VoxelCalled(vray_in)

\* a world of loaded, all-Air chunks that the chunk tracker has indexed
InitLoaded ==
    \E ids \in SUBSET (1..Len(RayChunks)) :
        /\ chunks = [e \in ids |-> EmptyChunk(RayChunks[e])]
        /\ idx_to_coord = [e \in ids |-> RayChunks[e]]
        /\ coord_to_ent = [c \in {RayChunks[e] : e \in ids} |->
                               CHOOSE e \in ids : RayChunks[e] = c]
        /\ aborted = "none"
        /\ debug = FALSE
        /\ unique_coords = TRUE
        /\ last_run = NoRun

InitVoxelRaycast ==
    /\ InitLoaded
    /\ InitDeltas
    /\ InitLimiter
    /\ NoMesher
    /\ NoTiming
    /\ NoRay
    /\ NoMeshCall
    /\ unread = EmptyMap
    /\ InitVoxelRay

VoxelRaycastCall ==
    /\ vray.pc = "call"
    /\ vray' = VoxelEnter(vray_in)
    /\ UNCHANGED <<vray_in, worldVars, deltaVars, limiterVars, mesherVars,
                   timingVars, rayVars, meshCallVars>>

\* if let Some(chunk) = tracker.get_chunk(storage, cur_chunk_v)
VoxelRaycastInChunk ==
    /\ vray.pc = "loop"
    /\ vray.legs < MaxLegs
    /\ \E e \in get_chunk(chunks, coord_to_ent, canonicalize_chunk(vray.cur_voxel_v)) :
          vray' = InChunk(vray_in, vray, chunks[e])
    /\ UNCHANGED <<vray_in, worldVars, deltaVars, limiterVars, mesherVars,
                   timingVars, rayVars, meshCallVars>>

\* else
VoxelRaycastBetween ==
    /\ vray.pc = "loop"
    /\ vray.legs < MaxLegs
    /\ get_chunk(chunks, coord_to_ent, canonicalize_chunk(vray.cur_voxel_v)) = {}
    /\ vray' = BetweenChunks(vray_in, vray, chunks, coord_to_ent)
    /\ UNCHANGED <<vray_in, worldVars, deltaVars, limiterVars, mesherVars,
                   timingVars, rayVars, meshCallVars>>

NextVoxelRaycast == VoxelRaycastCall \/ VoxelRaycastInChunk \/ VoxelRaycastBetween

SpecVoxelRaycast == InitVoxelRaycast /\ [][NextVoxelRaycast]_vars

\* the single-level raycast over the whole search box, predicate never true
WholeBox ==
    raycast(RayArgs(canonicalize(vray_in.coord), vray_in.coord, vray_in.direction,
                    vray_in.min_chunk, vray_in.max_chunk, {}))

SameHit(a, b) ==
    /\ a.end_voxel = b.end_voxel
    /\ a.face_hit = b.face_hit
    /\ a.hit_interesting = b.hit_interesting

\* C19: with no opaque voxel anywhere, voxel_raycast returns the boundary
\* hit (end voxel, face, hit_interesting = false) that one raycast with a
\* never-true predicate over the whole search box returns, whether the
\* chunks on the path are loaded or not: it does not abort or hang, and
\* what it returns is that hit
C19_SameAsWholeBox ==
    (WholeBox.pc = "done" /\ vray.pc # "call") =>
        /\ vray.pc \notin {"panic", "hang"}
        /\ vray.pc = "done" => SameHit(vray.ret, WholeBox.ret)

\* the same for the rays along one axis in the positive direction, from a
\* point with no negative coordinate, when no chunk is loaded
C19_ForwardNothingLoaded ==
    (/\ DOMAIN chunks = {}
     /\ AxisAligned(vray_in.direction)
     /\ \A a \in 1..3 : vray_in.direction[a][1] >= 0 /\ vray_in.coord[a][1] >= 0)
        => C19_SameAsWholeBox

\* a ray along +X from a loaded chunk into the next loaded chunk aborts
C19_AbortsBetweenLoaded ==
    /\ vray.pc = "panic"
    /\ vray.legs = 1
    /\ vray_in.coord = ToCoord(<<1, 1, 1>>)
    /\ vray_in.direction = ToCoord(<<1, 0, 0>>)
    /\ DOMAIN chunks = {1, 2}
    /\ vray.cur_voxel_v = <<16, 1, 1>>

(***************************************************************************)
(* mesh_layer and mesh_chunk.  Vertex positions are kept doubled, so that  *)
(* the half-voxel offsets of the face centres are integers.                *)
(***************************************************************************)
\* Direction::all(), by discriminant + 1
DirectionAll == <<"East", "Up", "North", "West", "Down", "South">>

ITERS == <<(<<(<<0, 1, 0>>), (<<0, 0, 1>>)>>),
           (<<(<<1, 0, 0>>), (<<0, 0, 1>>)>>),
           (<<(<<1, 0, 0>>), (<<0, 1, 0>>)>>),
           (<<(<<0, -1, 0>>), (<<0, 0, -1>>)>>),
           (<<(<<-1, 0, 0>>), (<<0, 0, -1>>)>>),
           (<<(<<-1, 0, 0>>), (<<0, -1, 0>>)>>)>>

BACKWARDS == <<FALSE, FALSE, FALSE, TRUE, TRUE, TRUE>>

\* every voxel drawn in the colour of Air
colorless(kind) == <<0, 0, 0, 0>>

\* TestVoxel::color, in tenths
color(kind) ==
    CASE kind = "Air" -> <<0, 0, 0, 0>>
      [] kind = "Rock" -> <<2, 2, 2, 10>>
      [] kind = "Grass" -> <<0, 80, 0, 10>>

\* Chunk::index_unchecked, for an index inside the array
index_unchecked(chunk, index) == VoxelAt(chunk, index)

\* a loop that starts every backwards direction at the origin as well
LayerLocsFromOrigin ==
    [d \in 1..6 |->
        [k \in 1..(CHUNK_SIZE * CHUNK_SIZE) |->
            VAdd(VScale(ITERS[d][1], (k - 1) \div CHUNK_SIZE),
                 VScale(ITERS[d][2], (k - 1) % CHUNK_SIZE))]]

\* the values loc takes in the two loops of mesh_layer, in their order
LayerLocs ==
    [d \in 1..6 |->
        LET iter1 == ITERS[d][1]
            iter2 == ITERS[d][2]
            first == IF BACKWARDS[d]
                     THEN VAdd(VScale(iter1, -(CHUNK_SIZE - 1)),
                               VScale(iter2, -(CHUNK_SIZE - 1)))
                     ELSE <<0, 0, 0>>
        IN  [k \in 1..(CHUNK_SIZE * CHUNK_SIZE) |->
                VAdd(first, VAdd(VScale(iter1, (k - 1) \div CHUNK_SIZE),
                                 VScale(iter2, (k - 1) % CHUNK_SIZE)))]]

\* InProgress with empty buffers
NewInProgress == [color |-> <<>>, position |-> <<>>, normal |-> <<>>]

mesh_layer(chunk1, level1, chunk2, level2, d, in_progress) ==
    LET normal == NORMALS[d]
        axis == <<Abs(normal[1]), Abs(normal[2]), Abs(normal[3])>>
        iter1 == ITERS[d][1]
        iter2 == ITERS[d][2]
        offset1 == VScale(axis, level1)
        offset2 == VScale(axis, level2)
        positions == <<VAdd(iter1, iter2), VSub(iter2, iter1),
                       VSub(VScale(iter1, -1), iter2), VSub(iter1, iter2),
                       VAdd(iter1, iter2), VSub(VScale(iter1, -1), iter2)>>
        boundary(loc) ==
            /\ ~is_transparent(index_unchecked(chunk1, VAdd(offset1, loc)))
            /\ is_transparent(index_unchecked(chunk2, VAdd(offset2, loc)))
        found == SelectSeq(LayerLocs[d], boundary)
        loc1(k) == VAdd(offset1, found[((k - 1) \div 6) + 1])
        colors == [k \in 1..(6 * Len(found)) |-> color(index_unchecked(chunk1, loc1(k)))]
        \* face_center + p, doubled
        points == [k \in 1..(6 * Len(found)) |->
                      VAdd(VAdd(VScale(loc1(k), 2), normal),
                           VScale(positions[((k - 1) % 6) + 1], 2))]
        initlen == Len(in_progress.color)
        position == in_progress.position \o points
        n == Len(position) - initlen
    IN  [color |-> in_progress.color \o colors,
         position |-> position,
         normal |-> in_progress.normal \o [k \in 1..n |-> normal]]

\* the loop over the interior layers of one direction
RECURSIVE MeshInterior(_, _, _, _, _, _)
MeshInterior(center, d, offset, end, sub, result) ==
    IF offset >= end THEN result
    ELSE MeshInterior(center, d, offset + 1, end, sub,
                      mesh_layer(center, offset, center, offset + sub, d, result))

\* one iteration of the loop over the directions
MeshOneDirection(store, c2e, coord, d, result) ==
    LET center == ChunkOf(store, get_chunk(store, c2e, coord))
        start == IF BACKWARDS[d] THEN 1 ELSE 0
        end == IF BACKWARDS[d] THEN CHUNK_SIZE ELSE CHUNK_SIZE - 1
        sub == IF BACKWARDS[d] THEN -1 ELSE 1
        interior == MeshInterior(center, d, start, end, sub, result)
        center_layer == IF BACKWARDS[d] THEN 0 ELSE CHUNK_SIZE - 1
        adjacent_layer == IF BACKWARDS[d] THEN CHUNK_SIZE - 1 ELSE 0
    IN  mesh_layer(center, center_layer, Adjacent(store, c2e, coord, d),
                   adjacent_layer, d, interior)

(***************************************************************************)
(* mesh_chunk, followed one direction at a time                            *)
(***************************************************************************)
\* the voxel data of the chunks that may be loaded, by entity index
ChunkData ==
    [e \in 1..3 |->
        IF e = 1 THEN [Cells -> {"Air", "Rock"}]
        ELSE IF e = 2
        THEN {[c \in Cells |-> "Air"],
              [c \in Cells |-> IF c = <<0, 0, 0>> THEN "Rock" ELSE "Air"]}
        ELSE {[c \in Cells |-> "Air"],
              [c \in Cells |-> IF c = <<15, 0, 0>> THEN "Grass" ELSE "Air"]}]

\* a world of loaded chunks that the chunk tracker has indexed
InitMeshWorld ==
    \E ids \in {s \in SUBSET (1..3) : 1 \in s} :
        /\ chunks \in {f \in [ids -> [coord : {RayChunks[e] : e \in ids},
                                      voxels : UNION {ChunkData[e] : e \in ids}]] :
                          \A e \in ids : /\ f[e].coord = RayChunks[e]
                                         /\ f[e].voxels \in ChunkData[e]}
        /\ idx_to_coord = [e \in ids |-> RayChunks[e]]
        /\ coord_to_ent = [c \in {RayChunks[e] : e \in ids} |->
                               CHOOSE e \in ids : RayChunks[e] = c]
        /\ aborted = "none"
        /\ debug = FALSE
        /\ unique_coords = TRUE
        /\ last_run = NoRun

MeshCalled == [pc |-> "call", i |-> 1, result |-> <<>>]

InitMeshChunk ==
    /\ InitMeshWorld
    /\ InitDeltas
    /\ InitLimiter
    /\ NoMesher
    /\ NoTiming
    /\ NoRay
    /\ NoVoxelRay
    /\ unread = EmptyMap
    /\ mesh_coord \in {RayChunks[1], RayChunks[2]}
    /\ mesh_call = MeshCalled

\* mesh_chunk up to its loop
MeshChunkCall ==
    /\ mesh_call.pc = "call"
    /\ mesh_call' =
          IF get_chunk(chunks, coord_to_ent, mesh_coord) = {}
          THEN [mesh_call EXCEPT !.pc = "panic"]
          ELSE [mesh_call EXCEPT !.pc = "for", !.result = NewInProgress]
    /\ UNCHANGED <<mesh_coord, worldVars, deltaVars, limiterVars, mesherVars,
                   timingVars, rayVars, vrayVars>>

\* one iteration of the loop; after the last one mesh_chunk returns
MeshChunkDirection ==
    /\ mesh_call.pc = "for"
    /\ mesh_call' =
          [pc |-> IF mesh_call.i = Len(DirectionAll) THEN "done" ELSE "for",
           i |-> mesh_call.i + 1,
           result |-> MeshOneDirection(chunks, coord_to_ent, mesh_coord,
                                       mesh_call.i, mesh_call.result)]
    /\ UNCHANGED <<mesh_coord, worldVars, deltaVars, limiterVars, mesherVars,
                   timingVars, rayVars, vrayVars>>

NextMeshChunk == MeshChunkCall \/ MeshChunkDirection

SpecMeshChunk == InitMeshChunk /\ [][NextMeshChunk]_vars

\* the chunk tagged with a coordinate, if one is loaded: its voxel at index
TaggedVoxel(coord, index) ==
    LET tagged == {e \in DOMAIN chunks : chunks[e].coord = coord}
    IN  IF tagged = {} THEN "Air" ELSE VoxelAt(chunks[CHOOSE e \in tagged : TRUE], index)

\* the neighbour of voxel v of the meshed chunk along direction d
NeighbourVoxel(v, d) ==
    LET n == VAdd(v, NORMALS[d])
        across == VScale(NORMALS[d], CHUNK_SIZE)
    IN  IF IndexInBounds(n) THEN TaggedVoxel(mesh_coord, n)
        ELSE TaggedVoxel(VAdd(mesh_coord, across), VSub(n, across))

\* the pairs (opaque voxel, direction) whose neighbour is transparent; the
\* voxels outside Cells are Air
ExpectedFaces ==
    {f \in Cells \X (1..6) : /\ ~is_transparent(TaggedVoxel(mesh_coord, f[1]))
                             /\ is_transparent(NeighbourVoxel(f[1], f[2]))}

\* the vertices of the g-th emitted face
FaceVertices(g) == (6 * (g - 1) + 1)..(6 * g)

\* the (voxel, direction) pair the g-th emitted face belongs to: its normal
\* gives the direction, its first vertex the voxel
FacePair(g) ==
    LET k == 6 * (g - 1) + 1
        d == CHOOSE i \in 1..6 : NORMALS[i] = mesh_call.result.normal[k]
        corner == VScale(VAdd(ITERS[d][1], ITERS[d][2]), 2)
        twice == VSub(VSub(mesh_call.result.position[k], NORMALS[d]), corner)
    IN  <<(<<twice[1] \div 2, twice[2] \div 2, twice[3] \div 2>>), d>>

EmittedFaces == Len(mesh_call.result.position) \div 6

\* C20: what mesh_chunk returns holds exactly one face for each pair of an
\* opaque voxel and a direction whose neighbour (in the chunk, or in the
\* adjacent chunk, an absent one being transparent) is transparent, with
\* the unit vector of the direction as the normal of all its vertices, and
\* no other face
C20_FacesExactly ==
    mesh_call.pc = "done" =>
        /\ Len(mesh_call.result.position) = 6 * EmittedFaces
        /\ Len(mesh_call.result.normal) = Len(mesh_call.result.position)
        /\ Len(mesh_call.result.color) = Len(mesh_call.result.position)
        /\ \A g \in 1..EmittedFaces : \A k \in FaceVertices(g) :
              /\ mesh_call.result.normal[k] = NORMALS[FacePair(g)[2]]
              /\ \A a \in 1..3 : NORMALS[FacePair(g)[2]][a] # 0 =>
                    mesh_call.result.position[k][a]
                        = 2 * FacePair(g)[1][a] + NORMALS[FacePair(g)[2]][a]
        /\ {FacePair(g) : g \in 1..EmittedFaces} = ExpectedFaces
        /\ EmittedFaces = Cardinality(ExpectedFaces)

\* opaque voxels on both sides of the chunk, one facing an opaque voxel of
\* the loaded neighbour, the other facing an absent chunk
C20_Witness ==
    /\ mesh_call.pc = "done"
    /\ mesh_coord = <<0, 0, 0>>
    /\ DOMAIN chunks = {1, 2}
    /\ chunks[1].voxels = [c \in Cells |-> "Rock"]
    /\ chunks[2].voxels[<<0, 0, 0>>] = "Rock"
    /\ EmittedFaces = 15

\* the meshed chunk holds one opaque voxel, at its minimum corner, and the
\* six neighbours of that voxel are transparent
SingleCornerVoxel ==
    /\ mesh_call.pc = "done"
    /\ \A c \in Cells : is_transparent(TaggedVoxel(mesh_coord, c)) <=> c # <<0, 0, 0>>
    /\ \A d \in 1..6 : is_transparent(NeighbourVoxel(<<0, 0, 0>>, d))

\* one face per direction, every vertex with the colour of the corner voxel
\* and the normal of its direction
SixFaces ==
    /\ EmittedFaces = 6
    /\ {FacePair(g) : g \in 1..6} = {<<0, 0, 0>>} \X (1..6)
    /\ \A k \in 1..Len(mesh_call.result.position) :
          /\ TaggedVoxel(mesh_coord, <<0, 0, 0>>) = "Rock" =>
                 mesh_call.result.color[k] = <<2, 2, 2, 10>>
          /\ TaggedVoxel(mesh_coord, <<0, 0, 0>>) = "Grass" =>
                 mesh_call.result.color[k] = <<0, 80, 0, 10>>
          /\ mesh_call.result.normal[k] = NORMALS[FacePair(((k - 1) \div 6) + 1)[2]]
    /\ Len(mesh_call.result.color) = Len(mesh_call.result.position)
    /\ Len(mesh_call.result.normal) = Len(mesh_call.result.position)

NoOpaqueVoxel ==
    /\ mesh_call.pc = "done"
    /\ \A e \in DOMAIN chunks : chunks[e].coord = mesh_coord =>
          \A c \in Cells : chunks[e].voxels[c] = "Air"

C23_Step ==
    \* the closure has meshed an id whose mesh or material could not be attached
    (pc = "task" /\ attach_failed' \ attach_failed # {}) =>
        \* the id counts as completed, nothing panics, the closure returns
        \* true and the loop goes on to the next have_time()
        /\ \E id \in to_do : /\ attach_failed' = attach_failed \cup {id}
                             /\ completed' = Append(completed, id)
        /\ aborted' = "none"
        /\ should_continue'
        /\ pc' = "test"
        /\ to_do' = to_do

\* C23: a failed insertion of the mesh handle or of the material for one
\* chunk does not end the mesher run; the loop continues with the remaining
\* dirty chunks while have_time() allows
C23_AttachFailureContinues == [][C23_Step]_vars

\* the attach for chunk 1 failed and chunk 1 has no mesh; the same run has
\* then meshed chunk 2 and attached its mesh
C23_Witness ==
    /\ Running
    /\ completed = <<1, 2>>
    /\ attach_failed = {1}
    /\ 1 \notin meshes
    /\ 2 \in meshes

\* the notification-processing step of a mesher run
Processing == pc = "idle" /\ pc' = "test" /\ MesherReaders \subseteq DOMAIN unread

\* the ids that were dirty before the step, or for which the step reads an
\* insert or modify notification: inserted or modified since last meshed
NotMeshedSince == to_do \cup Range(unread["m_ins"]) \cup Range(unread["m_mod"])

C24_Step ==
    Processing => \A id \in DOMAIN chunks : id \in NotMeshedSince => id \in to_do'

\* C24: after the notification-processing step of a mesher run, every chunk
\* in storage that was inserted or modified since it was last meshed is in
\* the dirty set, whatever notifications the step has read
C24_ExistingDirtyKept == [][C24_Step]_vars

C24_NoRemovalStep ==
    Processing => \A id \in DOMAIN chunks \ Range(unread["m_rem"]) :
                      id \in NotMeshedSince => id \in to_do'

\* the same for the ids without a removal notification in the step
C24_KeptWithoutRemoval == [][C24_NoRemovalStep]_vars

\* the voxel coordinates of the defer_set entries waiting or being applied
DeferredCoords == {pending[i].coord : i \in 1..Len(pending)}
                      \cup {batch[i].coord : i \in 1..Len(batch)}

\* c is the minimum corner of the chunk that contains v
MinCornerOf(c, v) ==
    \A a \in 1..3 : c[a] % CHUNK_SIZE = 0 /\ 0 <= v[a] - c[a] /\ v[a] - c[a] <= CHUNK_SIZE - 1

\* C25: canonicalize_chunk maps every voxel coordinate handed to defer_set,
\* negative or not, to the minimum corner of its chunk, so that the local
\* offset the apply phase indexes with is a valid chunk index
C25_MinCorner ==
    \A v \in DeferredCoords :
        /\ MinCornerOf(canonicalize_chunk(v), v)
        /\ IndexInBounds(VSub(v, canonicalize_chunk(v)))

\* the same for the coordinates without a negative component
C25_MinCornerNonNegative ==
    \A v \in DeferredCoords :
        (\A a \in 1..3 : v[a] >= 0) =>
            /\ MinCornerOf(canonicalize_chunk(v), v)
            /\ IndexInBounds(VSub(v, canonicalize_chunk(v)))

\* raycast has returned a hit result or a border result
HitOrBorder ==
    /\ ray.pc = "done"
    /\ ray.ret.hit_interesting \in BOOLEAN
    /\ ray.ret.hit_interesting = FALSE =>
          \E a \in 1..3 : /\ ray.ret.face_hit = FaceOf[a]
                          /\ ray.ret.end_voxel[a] = LimOf(ray_in)[a]

\* C26: for every start point, direction and predicate and every start
\* voxel inside the inclusive box, raycast neither aborts nor goes on
\* stepping past the voxels that lie between the start voxel and the box
\* limits, and what it returns is a hit result or a border result
C26_Terminates ==
    (InsideBox(ray_in) /\ ray.pc # "call") =>
        /\ ray.pc # "panic"
        /\ Len(ray.evals) <= 1 + Reach(ray_in)
        /\ ray.pc = "done" => HitOrBorder

\* the direction is not zero, every non-zero component of it gives a
\* non-zero step, and the start voxel is not on the limit of an axis it travels along
StepsTowardsLimit ==
    /\ \E a \in 1..3 : ray_in.direction[a] # FInt(0)
    /\ \A a \in 1..3 :
           ray_in.direction[a] # FInt(0) =>
               /\ StepOf(ray_in)[a] # 0
               /\ ray_in.start_voxel[a] # LimOf(ray_in)[a]

\* the same for the calls that pass the assertions and step on every axis
\* they travel along
C26_TerminatesWhenStepping ==
    (StartAsserts(ray_in) /\ StepsTowardsLimit) => C26_Terminates

\* the voxel an iteration of the loop has moved to
MovedTo == IF ray'.pc = "done" THEN ray'.ret.end_voxel ELSE ray'.pos

\* the iteration moved by one voxel along the axis it chose, the way the
\* direction points on that axis
FaceAdjacentMove ==
    LET a == Axis(ray.t_max)
    IN  /\ MovedTo[a] = ray.pos[a] + Sgn(ray_in.direction[a][1])
        /\ \A b \in (1..3) \ {a} : MovedTo[b] = ray.pos[b]

\* C27: every iteration of the loop of raycast whose chosen axis has a
\* non-zero direction component moves to a face-adjacent voxel: the
\* coordinate of that axis changes by 1, with the sign of the component
\* whatever its magnitude, and the two others stay
C27_FaceAdjacentSteps ==
    [][(ray.pc = "loop" /\ ray_in.direction[Axis(ray.t_max)] # FInt(0))
          => FaceAdjacentMove]_vars

\* the same for the iterations whose chosen axis has a direction component
\* that rounds to a non-zero integer
C27_StepsWhenRounded ==
    [][(ray.pc = "loop" /\ StepOf(ray_in)[Axis(ray.t_max)] # 0) => FaceAdjacentMove]_vars

\* 1 / |dc|
InvAbs(dc) == FDiv(FInt(1), <<Abs(dc[1]), dc[2]>>)

\* the loop goes on after advancing along an axis the ray travels along
AdvancedAxis ==
    /\ ray.pc = "loop"
    /\ ray'.pc = "loop"
    /\ ray_in.direction[Axis(ray.t_max)] # FInt(0)

\* t_max of the advanced axis grows by 1/|d|, a positive amount; the
\* parametric distance of the step is not negative, and that of the next
\* step, when it is along an axis the ray travels along, is not below it
GrowsByInvAbs ==
    LET a == Axis(ray.t_max)
        next == Axis(ray'.t_max)
    IN  /\ FLt(FInt(0), InvAbs(ray_in.direction[a]))
        /\ ray'.t_max[a] = FAdd(ray.t_max[a], InvAbs(ray_in.direction[a]))
        /\ \A b \in (1..3) \ {a} : ray'.t_max[b] = ray.t_max[b]
        /\ FLeq(FInt(0), ray.t_max[a])
        /\ ray_in.direction[next] # FInt(0) => FLeq(ray.t_max[a], ray'.t_max[next])

\* C28: after an axis is advanced its t_max grows by the positive amount
\* 1/|d| of that axis, so the parametric distance of successive steps is
\* non-negative and non-decreasing, for negative and positive components
C28_ParametricDistanceGrows == [][AdvancedAxis => GrowsByInvAbs]_vars

\* the same for the steps along an axis with a positive direction component
C28_GrowsWhenPositive ==
    [][(AdvancedAxis /\ ray_in.direction[Axis(ray.t_max)][1] > 0) => GrowsByInvAbs]_vars

Cross(u, v) ==
    <<u[2] * v[3] - u[3] * v[2], u[3] * v[1] - u[1] * v[3], u[1] * v[2] - u[2] * v[1]>>

\* u is a positive multiple of the unit vector n
PositiveMultiple(u, n) ==
    /\ u[1] * n[1] + u[2] * n[2] + u[3] * n[3] > 0
    /\ \A a \in 1..3 : n[a] = 0 => u[a] = 0

\* the triangle that starts at vertex k, in emission order, is
\* counter-clockwise seen from the side its normal points to
CounterClockwise(k) ==
    LET v0 == mesh_call.result.position[k]
        v1 == mesh_call.result.position[k + 1]
        v2 == mesh_call.result.position[k + 2]
    IN  PositiveMultiple(Cross(VSub(v1, v0), VSub(v2, v0)), mesh_call.result.normal[k])

\* the first vertices of the emitted triangles of the directions in ds
TrianglesOf(ds) ==
    {k \in 1..Len(mesh_call.result.position) :
        (k - 1) % 3 = 0 /\ \E d \in ds : mesh_call.result.normal[k] = NORMALS[d]}

\* C29: for each of the six directions, every emitted triangle is wound
\* counter-clockwise seen from outside: (v1 - v0) x (v2 - v0) is a positive
\* multiple of the normal of its direction
C29_CounterClockwise ==
    mesh_call.pc = "done" => \A k \in TrianglesOf(1..6) : CounterClockwise(k)

\* the same for East, North and Down
C29_EastNorthDown ==
    mesh_call.pc = "done" => \A k \in TrianglesOf({1, 3, 5}) : CounterClockwise(k)

\* Up, West and South are wound the other way
C29_UpWestSouthClockwise ==
    mesh_call.pc = "done" =>
        \A k \in TrianglesOf({2, 4, 6}) :
            PositiveMultiple(
                Cross(VSub(mesh_call.result.position[k + 2], mesh_call.result.position[k]),
                      VSub(mesh_call.result.position[k + 1], mesh_call.result.position[k])),
                mesh_call.result.normal[k])

\* twice the centre of the g-th emitted face: the midpoint of its first and
\* third vertex, which are opposite corners
FaceCentre2(g) ==
    LET k == 6 * (g - 1) + 1
        sum == VAdd(mesh_call.result.position[k], mesh_call.result.position[k + 2])
    IN  <<sum[1] \div 2, sum[2] \div 2, sum[3] \div 2>>

\* the near voxel of the g-th emitted face: its centre less half the normal
NearVoxel(g) ==
    LET twice == VSub(FaceCentre2(g), mesh_call.result.normal[6 * (g - 1) + 1])
    IN  <<twice[1] \div 2, twice[2] \div 2, twice[3] \div 2>>

\* every vertex of every face is h half-voxels away from the face centre
\* along both tangent axes and in the plane of the face, the centre being
\* the near voxel plus half the normal, and has the colour of the near voxel
FaceCorners(h) ==
    \A g \in 1..EmittedFaces :
        /\ ~is_transparent(TaggedVoxel(mesh_coord, NearVoxel(g)))
        /\ FaceCentre2(g) = VAdd(VScale(NearVoxel(g), 2), mesh_call.result.normal[6 * (g - 1) + 1])
        /\ \A k \in FaceVertices(g) :
              /\ \A a \in 1..3 :
                    Abs(mesh_call.result.position[k][a] - FaceCentre2(g)[a])
                        = IF mesh_call.result.normal[k][a] = 0 THEN h ELSE 0
              /\ TaggedVoxel(mesh_coord, NearVoxel(g)) = "Rock" =>
                    mesh_call.result.color[k] = <<2, 2, 2, 10>>

\* C30: every vertex of a face lies at the face centre offset by +0.5 or
\* -0.5 along each tangent axis, so the face is the unit square of the voxel
\* face, and has the colour of the near voxel
C30_UnitSquare == mesh_call.pc = "done" => FaceCorners(1)

\* the offsets are +1 or -1: the face is a square of side 2 around the centre
C30_SquareOfSideTwo == mesh_call.pc = "done" => FaceCorners(2)

\* the arguments of the level-1 raycast of the next iteration, the chunk at
\* corner c being loaded
LegArgs(c, chunk) ==
    RayArgs(vray.cur_voxel_v, vray.cur_coord_v, vray_in.direction,
            ChunkBox(c)[1], ChunkBox(c)[2], Opaque(chunk, c))

\* the next iteration traverses a loaded chunk, from one of its voxels
LegInChunk(e) ==
    /\ vray.pc = "loop"
    /\ e \in get_chunk(chunks, coord_to_ent, canonicalize_chunk(vray.cur_voxel_v))
    /\ IndexInBounds(VSub(vray.cur_voxel_v, canonicalize_chunk(vray.cur_voxel_v)))

\* the start voxel passes the assertions of raycast and the predicate is
\* asked only about voxels of the chunk
LegAdmitted(c, chunk) ==
    /\ StartAsserts(LegArgs(c, chunk))
    /\ raycast(LegArgs(c, chunk)).pc # "panic"
    /\ ~IndexFault(raycast(LegArgs(c, chunk)), c)

\* C31: every level-1 traversal of a loaded chunk with corner c gets the
\* box from c - 1 to c + 16 on every axis, accepts its start voxel, local
\* offset 0 included, and indexes the chunk only at offsets within 0..15
C31_BoxAroundChunk ==
    \A e \in DOMAIN chunks :
        LegInChunk(e) =>
            LET c == canonicalize_chunk(vray.cur_voxel_v)
            IN  /\ ChunkBox(c) = <<VSub(c, <<1, 1, 1>>),
                                   VAdd(c, <<CHUNK_SIZE, CHUNK_SIZE, CHUNK_SIZE>>)>>
                /\ LegAdmitted(c, chunks[e])

\* the lower bound of the box is c + 1: voxels at local offset 0 are outside
C31_LowerBoundInside ==
    \A e \in DOMAIN chunks :
        LegInChunk(e) =>
            ChunkBox(canonicalize_chunk(vray.cur_voxel_v))[1]
                = VAdd(canonicalize_chunk(vray.cur_voxel_v), <<1, 1, 1>>)

\* loc1 and loc2 of every iteration of one mesh_layer call: the indices it
\* hands to index_unchecked
LayerReads(level1, level2, d) ==
    LET normal == NORMALS[d]
        axis == <<Abs(normal[1]), Abs(normal[2]), Abs(normal[3])>>
    IN  UNION {{VAdd(VScale(axis, level1), LayerLocs[d][k]),
                VAdd(VScale(axis, level2), LayerLocs[d][k])} :
                  k \in 1..(CHUNK_SIZE * CHUNK_SIZE)}

\* the (level1, level2) pairs mesh_chunk calls mesh_layer with in direction
\* d: the interior pairs, then the pair against the adjacent chunk
LayerPairs(d) ==
    IF BACKWARDS[d]
    THEN {<<offset, offset - 1>> : offset \in 1..(CHUNK_SIZE - 1)}
             \cup {<<0, CHUNK_SIZE - 1>>}
    ELSE {<<offset, offset + 1>> : offset \in 0..(CHUNK_SIZE - 2)}
             \cup {<<CHUNK_SIZE - 1, 0>>}

\* every index read while meshing a direction, by direction
DirectionReads ==
    [d \in 1..6 |-> UNION {LayerReads(p[1], p[2], d) : p \in LayerPairs(d)}]

\* C32: every index mesh_layer reads through index_unchecked on behalf of
\* mesh_chunk is within 0..15 on every axis, in each of the six directions,
\* for the interior layer pairs and the pair against the neighbour
C32_ReadsInBounds ==
    (mesh_call.pc \in {"for", "done"} /\ mesh_call.i > 1) =>
        \A index \in DirectionReads[mesh_call.i - 1] : IndexInBounds(index)

\* a backwards direction has been meshed, reading both corners of the chunk
C32_Witness ==
    /\ mesh_call.pc = "done"
    /\ BACKWARDS[mesh_call.i - 1]
    /\ <<0, 0, 0>> \in DirectionReads[mesh_call.i - 1]
    /\ <<15, 15, 15>> \in DirectionReads[mesh_call.i - 1]
    /\ mesh_call.result # NewInProgress

(***************************************************************************)
(* SpecRemesh: the host, the tracker system and the mesher system, from a  *)
(* world of two adjacent chunks with opaque voxels on their shared face    *)
(***************************************************************************)
\* what one iteration of the loop over the directions appends
DirectionMesh(store, c2e, coord) ==
    [d \in 1..Len(DirectionAll) |-> MeshOneDirection(store, c2e, coord, d, NewInProgress)]

\* mesh_chunk for a chunk the index resolves: the loop over the directions,
\* every iteration appending to the same three buffers
mesh_chunk(store, c2e, coord) ==
    LET by == DirectionMesh(store, c2e, coord)
        all(field) == field[1] \o field[2] \o field[3] \o field[4] \o field[5] \o field[6]
    IN  [color |-> all([d \in 1..6 |-> by[d].color]),
         position |-> all([d \in 1..6 |-> by[d].position]),
         normal |-> all([d \in 1..6 |-> by[d].normal])]

\* a chunk at the origin and its six neighbours holding the given voxels
InputsStore(inputs) ==
    [e \in 0..6 |->
        IF e = 0 THEN [coord |-> <<0, 0, 0>>, voxels |-> inputs.center]
        ELSE [coord |-> VScale(NORMALS[e], CHUNK_SIZE), voxels |-> inputs.adjacent[e]]]

InputsIndex ==
    [c \in {<<0, 0, 0>>} \cup {VScale(NORMALS[d], CHUNK_SIZE) : d \in 1..6} |->
        IF c = <<0, 0, 0>> THEN 0 ELSE CHOOSE d \in 1..6 : VScale(NORMALS[d], CHUNK_SIZE) = c]

\* the mesh mesh_chunk computes from the given voxels
MeshOf(inputs) == mesh_chunk(InputsStore(inputs), InputsIndex, <<0, 0, 0>>)

\* chunk 1 at the origin with Rock in its corner, chunk 2 to the west of it
\* with Grass against that corner; the tracker has indexed both, the mesher
\* has not read their insertions yet
InitRemesh ==
    /\ chunks = [e \in {1, 2} |->
                    IF e = 1
                    THEN [coord |-> <<0, 0, 0>>,
                          voxels |-> [c \in Cells |->
                                         IF c = <<0, 0, 0>> THEN "Rock" ELSE "Air"]]
                    ELSE [coord |-> <<-16, 0, 0>>,
                          voxels |-> [c \in Cells |->
                                         IF c = <<15, 0, 0>> THEN "Grass" ELSE "Air"]]]
    /\ idx_to_coord = [e \in {1, 2} |-> IF e = 1 THEN <<0, 0, 0>> ELSE <<-16, 0, 0>>]
    /\ coord_to_ent = [c \in {<<0, 0, 0>>, <<-16, 0, 0>>} |->
                           IF c = <<0, 0, 0>> THEN 1 ELSE 2]
    /\ aborted = "none"
    /\ debug = FALSE
    /\ unique_coords = TRUE
    /\ last_run = NoRun
    /\ InitDeltas
    /\ InitLimiter
    /\ InitMesher
    /\ NoAux
    /\ unread = [r \in TrackerReaders \cup MesherReaders |->
                    IF r = "m_ins" THEN <<1, 2>> ELSE <<>>]

\* the host only unloads chunks
NextRemesh ==
    \/ HostRemove
    \/ TrackerRun
    \/ MesherBegin
    \/ MesherTest
    \/ Mesh

SpecRemesh == InitRemesh /\ [][NextRemesh]_vars

\* the mesh attached to id is what mesh_chunk gives for its chunk now
MeshCurrent(id) ==
    \/ attached'[id] = MeshInputs(chunks', coord_to_ent', chunks'[id].coord)
    \/ MeshOf(attached'[id]) = MeshOf(MeshInputs(chunks', coord_to_ent', chunks'[id].coord))

C33_Step ==
    (pc # "idle" /\ pc' = "idle" /\ Running' /\ to_do' = {}) =>
        \A id \in DOMAIN chunks' \cap DOMAIN attached' :
            get_chunk(chunks', coord_to_ent', chunks'[id].coord) # {} => MeshCurrent(id)

\* C33: when a mesher run ends with an empty dirty set, the mesh attached
\* to every loaded chunk is the mesh mesh_chunk gives for the current
\* voxels of the chunk and of its six neighbours
C33_MeshesCurrent == [][C33_Step]_vars

(***************************************************************************)
(* SpecStarve: two loaded chunks, a host that keeps modifying chunks, and  *)
(* the mesher system run tick after tick                                   *)
(***************************************************************************)
NextStarve ==
    \/ HostGetMut
    \/ MesherBegin
    \/ MesherTest
    \/ Mesh

\* the dispatcher runs the mesher system in every tick, and a run that has
\* started goes on to its end
SpecStarve ==
    /\ InitRemesh
    /\ [][NextStarve]_vars
    /\ WF_vars(MesherBegin)
    /\ WF_vars(MesherTest)
    /\ WF_vars(Mesh)

\* a run is about to return without having meshed any of its dirty chunks
StarvedTick == pc = "test" /\ ~have_time /\ completed = <<>> /\ to_do # {}

\* C34: if every tick has the budget to mesh at least one chunk, every id
\* that is in the dirty set is eventually meshed, while other chunks keep
\* being modified
C34_EventuallyMeshed ==
    ([]~StarvedTick) => \A id \in Ids : [](id \in to_do => <>(id \in Range(completed)))

\* the same for the lowest dirty id only
C34_LowestEventuallyMeshed ==
    ([]~StarvedTick) => [](1 \in to_do => <>(1 \in Range(completed)))

\* the id the closure of the mesher run is about to mesh, if there is one
NextDirty ==
    LET rest == {i \in to_do : i > iter}
    IN  {i \in rest : \A j \in rest : i <= j}

\* mesh_chunk is about to be called for id, which has a chunk in storage
AboutToMesh(id) ==
    /\ Running
    /\ pc = "task"
    /\ id \in NextDirty
    /\ id \in DOMAIN chunks

\* C35: when the mesher system meshes a dirty id that exists in storage,
\* the index resolves the coordinate tag of its chunk to that very chunk:
\* the lookup of mesh_chunk neither fails nor returns another chunk
C35_ResolvesOwnChunk ==
    \A id \in Ids :
        AboutToMesh(id) => get_chunk(chunks, coord_to_ent, chunks[id].coord) = {id}

\* the tracker system has processed every notification
TrackerUpToDate == unread["t_ins"] = <<>> /\ unread["t_rem"] = <<>>

\* the same when the tracker system has run since the last change of the
\* storage and no two chunks in storage ever carried the same tag
C35_ResolvesWhenIndexed ==
    \A id \in Ids :
        (AboutToMesh(id) /\ TrackerUpToDate /\ unique_coords)
            => get_chunk(chunks, coord_to_ent, chunks[id].coord) = {id}

(***************************************************************************)
(* The clock reads of one round of repeat_with_budget                      *)
(***************************************************************************)
\* One round of the loop of repeat_with_budget reads the clock three times:
\* in have_time, in time_task (Task::start) and when the Task is dropped.
\* The task unit starts k ticks after the read of have_time and is measured
\* as d ticks from its start; RepeatTask(d, cont) is the round with k = 0.
StartLate(k, d, cont) ==
    /\ Running
    /\ pc = "task"
    /\ time_estimate' = Smooth(time_estimate, d)
    /\ should_continue' = cont
    /\ IF cont
       THEN FrameContinue(k + d)
       ELSE FrameReturn(TRUE)
    /\ UNCHANGED <<worldVars, deltaVars, mesherVars>>
    /\ UNCHANGED auxVars

BeginTest == \E budget \in 0..MaxTestBudget : RepeatBegin(budget)

LateTask ==
    \E k \in 0..MaxLate, d \in 0..MaxDur, cont \in BOOLEAN : StartLate(k, d, cont)

NextLate == BeginTest \/ RepeatTest \/ LateTask

SpecLate == InitLimiterOnly /\ [][NextLate]_vars

\* C36 as stated: a task unit started after have_time() returned true, whose
\* measured duration does not exceed the estimate held at that moment,
\* finishes strictly before the deadline of the frame
C36_Step ==
    \A k \in 0..MaxLate, d \in 0..MaxDur :
        (StartLate(k, d, TRUE) /\ to_float(d) <= time_estimate)
            => now' < deadline

C36_NoOvershoot == [][C36_Step]_vars

\* C36, amended: when the time from the clock read of have_time() to the end
\* of the task unit (the wait before the unit starts and its measured
\* duration) does not exceed the estimate held at that moment, the unit
\* finishes strictly before the deadline of the frame
C36_StepFromTest ==
    \A k \in 0..MaxLate, d \in 0..MaxDur :
        (StartLate(k, d, TRUE) /\ to_float(k + d) <= time_estimate)
            => now' < deadline

C36_NoOvershootFromTest == [][C36_StepFromTest]_vars

\* have_time() has returned true in a frame that already ran a unit, with an
\* estimate of at least one tick: the round that comes next can take a whole
\* tick and stay within the estimate
C36_Witness ==
    /\ pc = "task"
    /\ ran
    /\ now > 0
    /\ time_estimate >= to_float(1)
    /\ now + 1 < deadline
=============================================================================
